---- MODULE Spec2Model ----
(***************************************************************************)
(* A model of edge/databank: the synchronising proxy driver                *)
(* (pkg/proxy/sync.go), the middleware chain (middleware.go) and the       *)
(* entry model (entry.go, hasher.go).                                      *)
(***************************************************************************)
EXTENDS Integers, Sequences, FiniteSets, TLC

\* ------------------------------------------------------------------ bounds
\* The largest number of drivers handed to NewSync.
MaxTiers == 3
\* The largest number of driver calls that misbehave during one operation.
MaxFaults == 2

\* ------------------------------------------------------------- the values
Ids == {"k1", "k2"}
Contents == {"v1", "v2"}
\* *databank.Entry as the proxy sees it: the ID it is stored under and its payload.
Entry == [id : Ids, content : Contents]
\* A nil *databank.Entry.
NilEntry == [id |-> "nil", content |-> "nil"]
\* A nil error, and the error a driver returns from one of its methods.
NoErr == [tier |-> 0, method |-> "nil"]
Err(t, m) == [tier |-> t, method |-> m]

VARIABLES
  drivers,      \* SyncDriver.drivers: what each configured driver stores, front to back
  perIteration, \* whether the build gives a range loop one variable per iteration
  before,       \* drivers as they were when the operation in ret was called
  calls,        \* the driver calls the operation in ret made, in order
  ret,          \* the operation that has returned and what it returned
  middlewares,  \* the middlewares handed to installMiddleware, in configured order
  middleware,   \* databank.middleware: the handlers installMiddleware composed
  invoked,      \* how many times a composed handler has been invoked
  handled,      \* the last invocation: what was entered, in order, and what it returned
  now,          \* time.Now()
  entry,        \* an Entry's metadata
  last,         \* the Entry method that has returned and what the entry was before it
  idKey,        \* EntryID's key argument
  idTags,       \* EntryID's tags argument
  idResult,     \* what EntryID returned, and the order in which it ranged over tags
  config        \* databank.config: the frontend's Hot and Lifetime

syncVars == <<drivers, perIteration, before, calls, ret>>
chainVars == <<middlewares, middleware, invoked, handled>>
entryVars == <<now, entry, last>>
idVars == <<idKey, idTags, idResult>>
frontVars == <<config>>
vars == <<syncVars, chainVars, entryVars, idVars, frontVars>>

\* The parts of the program a specification leaves alone.
NoCall == [op |-> "none"]
SyncQuiet ==
  /\ drivers = <<>> /\ perIteration = TRUE /\ before = <<>> /\ calls = <<>>
  /\ ret = [op |-> "idle"]
ChainQuiet ==
  /\ middlewares = <<>> /\ middleware = <<>> /\ invoked = 0 /\ handled = NoCall
EntryQuiet ==
  /\ now = 0 /\ entry = NoCall /\ last = NoCall
IdQuiet ==
  /\ idKey = <<>> /\ idTags = <<>> /\ idResult = NoCall
\* NewConfig(): not hot, entries never expire.
NewConfig == [hot |-> FALSE, lifetime |-> 0]
FrontQuiet ==
  /\ config = NewConfig

\* -------------------------------------------------- the Driver contract
\* The ways one driver method may misbehave during one operation: a fault is
\* (tier, method, mode); a method without a fault behaves as the in-memory driver.
Faults(n, kinds) ==
  {[tier |-> t, method |-> k[1], mode |-> k[2]] : t \in 1..n, k \in kinds}

RECURSIVE PlansUpTo(_, _, _)
PlansUpTo(k, n, kinds) ==
  IF k = 0 THEN {{}}
  ELSE LET smaller == PlansUpTo(k - 1, n, kinds) IN
       smaller \cup
       UNION {{p \cup {a} : a \in {b \in Faults(n, kinds) :
                                     \A c \in p : c.tier # b.tier \/ c.method # b.method}} :
              p \in smaller}

\* Every plan of at most MaxFaults faults, per number of drivers and operation. An
\* operation that discards a call's result meets one failing mode of that call.
ReadPlans ==
  [n \in 0..MaxTiers |-> PlansUpTo(MaxFaults, n, {<<"Read", "err">>, <<"Write", "err">>})]
WritePlans ==
  [n \in 0..MaxTiers |->
     PlansUpTo(MaxFaults, n, {<<"Read", "err">>, <<"Write", "notok">>, <<"Write", "err">>,
                              <<"Delete", "err">>})]
DeletePlans ==
  [n \in 0..MaxTiers |->
     PlansUpTo(MaxFaults, n, {<<"Delete", "notok">>, <<"Delete", "err">>,
                              <<"Delete", "okerr">>})]
HasPlans ==
  [n \in 0..MaxTiers |-> PlansUpTo(MaxFaults, n, {<<"Has", "err">>, <<"Has", "okerr">>})]
FlushPlans ==
  [n \in 0..MaxTiers |->
     PlansUpTo(MaxFaults, n, {<<"Flush", "notok">>, <<"Flush", "err">>,
                              <<"Flush", "okerrs">>})]
ScanPlans ==
  [n \in 0..MaxTiers |-> PlansUpTo(MaxFaults, n, {<<"Scan", "notok">>, <<"Scan", "err">>})]

Mode(plan, t, m) ==
  IF \E a \in plan : a.tier = t /\ a.method = m
  THEN (CHOOSE a \in plan : a.tier = t /\ a.method = m).mode
  ELSE "ok"

\* The state an operation threads through its driver calls.
Call(t, m, id, ok, err) == [tier |-> t, method |-> m, id |-> id, ok |-> ok, err |-> err]

\* Driver.Read(id) on tier t: a driver whose entry has gone since it listed the ID
\* reports a miss.
driverRead(st, t, id, plan) ==
  LET failing == Mode(plan, t, "Read") = "err"
      e == IF Mode(plan, t, "Read") \in {"err", "miss"} THEN NilEntry ELSE st.drv[t][id]
      ok == e # NilEntry
      err == IF failing THEN Err(t, "Read") ELSE NoErr
  IN [st |-> [drv |-> st.drv, log |-> Append(st.log, Call(t, "Read", id, ok, err))],
      e |-> e, ok |-> ok, err |-> err]

\* Driver.Write(e) on tier t: stored under e.ID().
driverWrite(st, t, e, plan) ==
  LET mode == Mode(plan, t, "Write")
      ok == mode = "ok"
      err == IF mode = "err" THEN Err(t, "Write") ELSE NoErr
      drv == IF ok THEN [st.drv EXCEPT ![t][e.id] = e] ELSE st.drv
  IN [st |-> [drv |-> drv, log |-> Append(st.log, Call(t, "Write", e.id, ok, err))],
      ok |-> ok, err |-> err]

\* Driver.Delete(id) on tier t: ok reports that the ID is absent on return.
driverDelete(st, t, id, plan) ==
  LET mode == Mode(plan, t, "Delete")
      ok == mode \in {"ok", "okerr"}
      err == IF mode \in {"err", "okerr"} THEN Err(t, "Delete") ELSE NoErr
      drv == IF ok THEN [st.drv EXCEPT ![t][id] = NilEntry] ELSE st.drv
  IN [st |-> [drv |-> drv, log |-> Append(st.log, Call(t, "Delete", id, ok, err))],
      ok |-> ok, err |-> err]

\* Driver.Scan() on tier t: the IDs it stores.
driverScan(st, t, plan) ==
  LET mode == Mode(plan, t, "Scan")
      ok == mode = "ok"
      err == IF mode = "err" THEN Err(t, "Scan") ELSE NoErr
      ids == IF ok THEN {id \in Ids : st.drv[t][id] # NilEntry} ELSE {}
  IN [st |-> [drv |-> st.drv, log |-> Append(st.log, Call(t, "Scan", "nil", ok, err))],
      ids |-> ids, ok |-> ok, err |-> err]

\* Driver.Has(id) on tier t.
driverHas(st, t, id, plan) ==
  LET mode == Mode(plan, t, "Has")
      ok == IF mode = "ok" THEN st.drv[t][id] # NilEntry ELSE mode = "okerr"
      err == IF mode \in {"err", "okerr"} THEN Err(t, "Has") ELSE NoErr
  IN [st |-> [drv |-> st.drv, log |-> Append(st.log, Call(t, "Has", id, ok, err))],
      ok |-> ok, err |-> err]

\* Driver.Flush() on tier t: a flush that succeeds leaves the driver empty; one that
\* fails reports ok=false, or a list of errors with either ok.
driverFlush(st, t, plan) ==
  LET mode == Mode(plan, t, "Flush")
      ok == mode \in {"ok", "okerrs"}
      errs == IF mode = "err" THEN <<Err(t, "Flush")>>
              ELSE IF mode = "okerrs" THEN <<Err(t, "Flush"), Err(t, "Delete")>>
              ELSE <<>>
      drv == IF mode = "ok" THEN [st.drv EXCEPT ![t] = [id \in Ids |-> NilEntry]]
             ELSE st.drv
  IN [st |-> [drv |-> drv,
              log |-> Append(st.log, [tier |-> t, method |-> "Flush", ok |-> ok,
                                      errs |-> errs])],
      ok |-> ok, errs |-> errs]

\* ------------------------------------------------------------ SyncDriver
\* *failed[k] and *written[k]: the driver a pointer to the range variable leads to.
\* With one variable per iteration it is the driver of that iteration; with one
\* variable for the whole loop it is the driver the loop stopped at.
Deref(captured, loopVar, perIter) == IF perIter THEN captured ELSE loopVar

\* A read loop that takes an error for a miss and goes on to the next driver.
RECURSIVE readLoopPastErrors(_, _, _, _, _)
readLoopPastErrors(st, i, id, failed, plan) ==
  IF i > Len(st.drv)
  THEN [st |-> st, result |-> NilEntry, err |-> NoErr, failed |-> failed, driver |-> i - 1]
  ELSE LET c == driverRead(st, i, id, plan) IN
       IF c.ok
       THEN [st |-> c.st, result |-> c.e, err |-> NoErr, failed |-> failed, driver |-> i]
       ELSE readLoopPastErrors(c.st, i + 1, id, Append(failed, i), plan)

\* The read loop of SyncDriver.Read: front to back until a hit or an error.
RECURSIVE readLoop(_, _, _, _, _)
readLoop(st, i, id, failed, plan) ==
  IF i > Len(st.drv)
  THEN [st |-> st, result |-> NilEntry, err |-> NoErr, failed |-> failed, driver |-> i - 1]
  ELSE LET c == driverRead(st, i, id, plan) IN
       IF c.err # NoErr
       THEN [st |-> c.st, result |-> NilEntry, err |-> c.err, failed |-> failed, driver |-> i]
       ELSE IF c.ok
       THEN [st |-> c.st, result |-> c.e, err |-> NoErr, failed |-> failed, driver |-> i]
       ELSE readLoop(c.st, i + 1, id, Append(failed, i), plan)

\* The write-back loop of SyncDriver.Read: failed[f-(i+1)] for i = 0..f-1.
RECURSIVE fillBack(_, _, _, _, _, _, _)
fillBack(st, i, failed, loopVar, result, plan, perIter) ==
  IF i >= Len(failed) THEN st
  ELSE LET driver == Deref(failed[Len(failed) - i], loopVar, perIter) IN
       fillBack(driverWrite(st, driver, result, plan).st, i + 1, failed, loopVar,
                result, plan, perIter)

\* A Read for which an ID that no driver holds is an error.
SyncReadMissIsError(st, id, plan, perIter) ==
  LET r == readLoop(st, 1, id, <<>>, plan) IN
  IF r.err # NoErr THEN [st |-> r.st, e |-> NilEntry, ok |-> FALSE, err |-> r.err]
  ELSE IF r.result = NilEntry
  THEN [st |-> r.st, e |-> NilEntry, ok |-> FALSE, err |-> Err(0, "Read")]
  ELSE [st |-> fillBack(r.st, 0, r.failed, r.driver, r.result, plan, perIter),
        e |-> r.result, ok |-> TRUE, err |-> NoErr]

\* SyncDriver.Read(id).
SyncRead(st, id, plan, perIter) ==
  LET r == readLoop(st, 1, id, <<>>, plan) IN
  IF r.err # NoErr THEN [st |-> r.st, e |-> NilEntry, ok |-> FALSE, err |-> r.err]
  ELSE IF r.result = NilEntry THEN [st |-> r.st, e |-> NilEntry, ok |-> FALSE, err |-> NoErr]
  ELSE [st |-> fillBack(r.st, 0, r.failed, r.driver, r.result, plan, perIter),
        e |-> r.result, ok |-> TRUE, err |-> NoErr]

\* A write loop that writes the front driver and no other.
writeLoopFrontOnly(st, i, e, written, okResult, plan) ==
  IF Len(st.drv) = 0
  THEN [st |-> st, okResult |-> okResult, errResult |-> NoErr, written |-> written,
        driver |-> 0]
  ELSE LET c == driverWrite(st, 1, e, plan) IN
       [st |-> c.st, okResult |-> c.ok, errResult |-> c.err,
        written |-> IF c.ok THEN <<1>> ELSE <<>>, driver |-> 1]

\* A write loop that stops at the first driver reporting ok=false.
RECURSIVE writeLoopStopsAtNotOk(_, _, _, _, _, _)
writeLoopStopsAtNotOk(st, i, e, written, okResult, plan) ==
  IF i > Len(st.drv)
  THEN [st |-> st, okResult |-> okResult, errResult |-> NoErr, written |-> written,
        driver |-> i - 1]
  ELSE LET c == driverWrite(st, i, e, plan) IN
       IF ~c.ok
       THEN [st |-> c.st, okResult |-> FALSE, errResult |-> c.err, written |-> written,
             driver |-> i]
       ELSE writeLoopStopsAtNotOk(c.st, i + 1, e, Append(written, i), okResult, plan)

\* The write loop of SyncDriver.Write: front to back, stopping at the first error.
RECURSIVE writeLoop(_, _, _, _, _, _)
writeLoop(st, i, e, written, okResult, plan) ==
  IF i > Len(st.drv)
  THEN [st |-> st, okResult |-> okResult, errResult |-> NoErr, written |-> written,
        driver |-> i - 1]
  ELSE LET c == driverWrite(st, i, e, plan) IN
       IF c.err # NoErr
       THEN [st |-> c.st, okResult |-> FALSE, errResult |-> c.err, written |-> written,
             driver |-> i]
       ELSE IF ~c.ok
       THEN writeLoop(c.st, i + 1, e, written, FALSE, plan)
       ELSE writeLoop(c.st, i + 1, e, Append(written, i), okResult, plan)

\* The rollback loop of SyncDriver.Write: written[w-(i+1)] for i = 0..w-1.
RECURSIVE rollBack(_, _, _, _, _, _, _, _)
rollBack(st, i, written, loopVar, origE, id, plan, perIter) ==
  IF i >= Len(written) THEN st
  ELSE LET driver == Deref(written[Len(written) - i], loopVar, perIter)
           next == IF origE # NilEntry
                   THEN driverWrite(st, driver, origE, plan).st
                   ELSE driverDelete(st, driver, id, plan).st
       IN rollBack(next, i + 1, written, loopVar, origE, id, plan, perIter)

\* A Write that takes a failed capture of the prior value for a miss and writes.
SyncWriteDespiteReadError(st, e, plan, perIter) ==
  LET id == e.id
      orig == SyncRead(st, id, plan, perIter)
      w == writeLoop(orig.st, 1, e, <<>>, TRUE, plan)
  IN [st |-> IF w.errResult # NoErr
             THEN rollBack(w.st, 0, w.written, w.driver, orig.e, id, plan, perIter)
             ELSE w.st,
      ok |-> w.okResult, err |-> w.errResult]

\* SyncDriver.Write(e).
SyncWrite(st, e, plan, perIter) ==
  LET id == e.id
      orig == SyncRead(st, id, plan, perIter)
  IN IF orig.err # NoErr THEN [st |-> orig.st, ok |-> FALSE, err |-> orig.err]
     ELSE LET w == writeLoop(orig.st, 1, e, <<>>, TRUE, plan) IN
          [st |-> IF w.errResult # NoErr
                  THEN rollBack(w.st, 0, w.written, w.driver, orig.e, id, plan, perIter)
                  ELSE w.st,
           ok |-> w.okResult, err |-> w.errResult]

\* A DeleteAggregate that walks the drivers front to back.
DeleteOrderForward(n, i) == i + 1

\* The driver DeleteAggregate visits in iteration i (0-based): back to front.
DeleteOrder(n, i) == n - i

\* SyncDriver.DeleteAggregate(id): one ok and one error per driver.
RECURSIVE DeleteAggregateLoop(_, _, _, _, _, _)
DeleteAggregateLoop(st, i, id, oks, errors, plan) ==
  IF i >= Len(st.drv) THEN [st |-> st, oks |-> oks, errors |-> errors]
  ELSE LET c == driverDelete(st, DeleteOrder(Len(st.drv), i), id, plan) IN
       DeleteAggregateLoop(c.st, i + 1, id, Append(oks, c.ok), Append(errors, c.err), plan)

\* A DeleteAggregate that deletes from the authority alone.
DeleteAggregateAuthority(st, id, plan) ==
  IF Len(st.drv) = 0 THEN [st |-> st, oks |-> <<>>, errors |-> <<>>]
  ELSE LET c == driverDelete(st, Len(st.drv), id, plan) IN
       [st |-> c.st, oks |-> <<c.ok>>, errors |-> <<c.err>>]

DeleteAggregate(st, id, plan) == DeleteAggregateLoop(st, 0, id, <<>>, <<>>, plan)

\* A Delete that is satisfied by one driver's ok.
DeleteOkAny(oks) == \E k \in 1..Len(oks) : oks[k]

\* The ok SyncDriver.Delete derives from the drivers' oks.
DeleteOk(oks) == Len(oks) > 0 /\ \A k \in 1..Len(oks) : oks[k]

\* The error SyncDriver.Delete returns: errors[le-1] when le > 0.
DeleteErr(errors) == IF Len(errors) > 0 THEN errors[Len(errors)] ELSE NoErr

\* SyncDriver.Delete(id).
SyncDelete(st, id, plan) ==
  LET a == DeleteAggregate(st, id, plan) IN
  [st |-> a.st, ok |-> DeleteOk(a.oks), err |-> DeleteErr(a.errors)]

\* A Has that asks the drivers back to front.
RECURSIVE hasLoopBackward(_, _, _, _)
hasLoopBackward(st, i, id, plan) ==
  IF i > Len(st.drv) THEN [st |-> st, ok |-> FALSE, err |-> NoErr]
  ELSE LET c == driverHas(st, Len(st.drv) - i + 1, id, plan) IN
       IF c.err # NoErr THEN [st |-> c.st, ok |-> FALSE, err |-> c.err]
       ELSE IF c.ok THEN [st |-> c.st, ok |-> TRUE, err |-> NoErr]
       ELSE hasLoopBackward(c.st, i + 1, id, plan)

\* The loop of SyncDriver.Has: front to back until an error or a positive answer.
RECURSIVE hasLoop(_, _, _, _)
hasLoop(st, i, id, plan) ==
  IF i > Len(st.drv) THEN [st |-> st, ok |-> FALSE, err |-> NoErr]
  ELSE LET c == driverHas(st, i, id, plan) IN
       IF c.err # NoErr THEN [st |-> c.st, ok |-> FALSE, err |-> c.err]
       ELSE IF c.ok THEN [st |-> c.st, ok |-> TRUE, err |-> NoErr]
       ELSE hasLoop(c.st, i + 1, id, plan)

\* SyncDriver.Has(id).
SyncHas(st, id, plan) == hasLoop(st, 1, id, plan)

\* A Flush that works front to back.
RECURSIVE flushLoopForward(_, _, _)
flushLoopForward(st, i, plan) ==
  IF i > Len(st.drv) THEN [st |-> st, ok |-> TRUE, errs |-> <<>>]
  ELSE LET c == driverFlush(st, i, plan)
           rest == flushLoopForward(c.st, i + 1, plan)
       IN [st |-> rest.st,
           ok |-> Len(c.errs) = 0 /\ c.ok /\ rest.ok,
           errs |-> c.errs \o rest.errs]

\* The loop of SyncDriver.Flush, from its i-th iteration: back to front, every
\* driver, errors appended in the order met.
RECURSIVE flushLoop(_, _, _)
flushLoop(st, i, plan) ==
  IF i > Len(st.drv) THEN [st |-> st, ok |-> TRUE, errs |-> <<>>]
  ELSE LET c == driverFlush(st, Len(st.drv) - i + 1, plan)
           rest == flushLoop(c.st, i + 1, plan)
       IN [st |-> rest.st,
           ok |-> Len(c.errs) = 0 /\ c.ok /\ rest.ok,
           errs |-> c.errs \o rest.errs]

\* A Flush that empties the authority and no other driver.
SyncFlushAuthority(st, plan) ==
  IF Len(st.drv) = 0 THEN [st |-> st, ok |-> TRUE, errs |-> <<>>]
  ELSE driverFlush(st, Len(st.drv), plan)

\* SyncDriver.Flush().
SyncFlush(st, plan) == flushLoop(st, 1, plan)

\* An authority that is the front driver.
authorityFront(drv) == IF Len(drv) = 0 THEN 0 ELSE 1

\* SyncDriver.authority(): the index of the last driver.
authority(drv) == Len(drv)

\* SyncDriver.Scan(): indexing an empty driver list panics.
SyncScan(st, plan) ==
  IF authority(st.drv) < 1
  THEN [st |-> st, ids |-> {}, ok |-> FALSE, err |-> NoErr, panic |-> TRUE]
  ELSE LET c == driverScan(st, authority(st.drv), plan) IN
       [st |-> c.st, ids |-> c.ids, ok |-> c.ok, err |-> c.err, panic |-> FALSE]

\* ------------------------------------------------------- the sync actions
Idle == [op |-> "idle"]
Store == [Ids -> Entry \cup {NilEntry}]
\* A driver stores an entry under the entry's own ID.
WellStored(s) == \A id \in Ids : s[id] = NilEntry \/ s[id].id = id
Stores == {s \in Store : WellStored(s)}
\* The drivers that hold nothing under any other ID than those of ids.
StoresHolding(ids) == {s \in Stores : \A id \in Ids \ ids : s[id] = NilEntry}
DriverLists(ids) == UNION {[1..n -> StoresHolding(ids)] : n \in 0..MaxTiers}

\* Read, Write and Delete touch what the drivers hold under one ID and nothing
\* else: they are called with this ID, on drivers that hold it or nothing.
SyncIds == {"k1"}

\* NewSync(drivers...): any number of drivers, each holding whatever it holds.
SyncInit ==
  /\ ChainQuiet /\ EntryQuiet /\ IdQuiet /\ FrontQuiet
  /\ drivers \in DriverLists(SyncIds)
  /\ perIteration \in BOOLEAN
  /\ before = drivers
  /\ calls = <<>>
  /\ ret = Idle

Start == [drv |-> drivers, log |-> <<>>]

Read ==
  /\ ret = Idle
  /\ \E id \in SyncIds, plan \in ReadPlans[Len(drivers)] :
       LET r == SyncRead(Start, id, plan, perIteration) IN
       /\ drivers' = r.st.drv
       /\ calls' = r.st.log
       /\ ret' = [op |-> "Read", id |-> id, e |-> r.e, ok |-> r.ok, err |-> r.err]
  /\ before' = drivers
  /\ UNCHANGED <<perIteration, chainVars, entryVars, idVars, frontVars>>

Write ==
  /\ ret = Idle
  /\ \E e \in {x \in Entry : x.id \in SyncIds}, plan \in WritePlans[Len(drivers)] :
       LET r == SyncWrite(Start, e, plan, perIteration) IN
       /\ drivers' = r.st.drv
       /\ calls' = r.st.log
       /\ ret' = [op |-> "Write", id |-> e.id, e |-> e, ok |-> r.ok, err |-> r.err]
  /\ before' = drivers
  /\ UNCHANGED <<perIteration, chainVars, entryVars, idVars, frontVars>>

Delete ==
  /\ ret = Idle
  /\ \E id \in SyncIds, plan \in DeletePlans[Len(drivers)] :
       LET r == SyncDelete(Start, id, plan) IN
       /\ drivers' = r.st.drv
       /\ calls' = r.st.log
       /\ ret' = [op |-> "Delete", id |-> id, ok |-> r.ok, err |-> r.err]
  /\ before' = drivers
  /\ UNCHANGED <<perIteration, chainVars, entryVars, idVars, frontVars>>

DeleteAgg ==
  /\ ret = Idle
  /\ \E id \in SyncIds, plan \in DeletePlans[Len(drivers)] :
       LET r == DeleteAggregate(Start, id, plan) IN
       /\ drivers' = r.st.drv
       /\ calls' = r.st.log
       /\ ret' = [op |-> "DeleteAggregate", id |-> id, oks |-> r.oks, errors |-> r.errors]
  /\ before' = drivers
  /\ UNCHANGED <<perIteration, chainVars, entryVars, idVars, frontVars>>

Has ==
  /\ ret = Idle
  /\ \E id \in SyncIds, plan \in HasPlans[Len(drivers)] :
       LET r == SyncHas(Start, id, plan) IN
       /\ drivers' = r.st.drv
       /\ calls' = r.st.log
       /\ ret' = [op |-> "Has", id |-> id, ok |-> r.ok, err |-> r.err]
  /\ before' = drivers
  /\ UNCHANGED <<perIteration, chainVars, entryVars, idVars, frontVars>>

Scan ==
  /\ ret = Idle
  /\ \E plan \in ScanPlans[Len(drivers)] :
       LET r == SyncScan(Start, plan) IN
       /\ drivers' = r.st.drv
       /\ calls' = r.st.log
       /\ ret' = [op |-> "Scan", ids |-> r.ids, ok |-> r.ok, err |-> r.err,
                  panic |-> r.panic]
  /\ before' = drivers
  /\ UNCHANGED <<perIteration, chainVars, entryVars, idVars, frontVars>>

Flush ==
  /\ ret = Idle
  /\ \E plan \in FlushPlans[Len(drivers)] :
       LET r == SyncFlush(Start, plan) IN
       /\ drivers' = r.st.drv
       /\ calls' = r.st.log
       /\ ret' = [op |-> "Flush", ok |-> r.ok, errs |-> r.errs]
  /\ before' = drivers
  /\ UNCHANGED <<perIteration, chainVars, entryVars, idVars, frontVars>>

\* The caller takes the result; the driver is ready for the next call.
Return ==
  /\ ret # Idle
  /\ ret' = Idle
  /\ calls' = <<>>
  /\ before' = drivers
  /\ UNCHANGED <<drivers, perIteration, chainVars, entryVars, idVars, frontVars>>

SyncNext == Read \/ Write \/ Delete \/ DeleteAgg \/ Has \/ Return

SyncSpec == SyncInit /\ [][SyncNext]_vars

\* Scan reads every ID a driver holds: it is called on drivers holding any IDs.
ScanInit ==
  /\ ChainQuiet /\ EntryQuiet /\ IdQuiet /\ FrontQuiet
  /\ drivers \in DriverLists(Ids)
  /\ perIteration \in BOOLEAN
  /\ before = drivers
  /\ calls = <<>>
  /\ ret = Idle

ScanNext == Scan \/ Return

ScanSpec == ScanInit /\ [][ScanNext]_vars

\* Flush empties whole drivers whatever the entries say: it is called on drivers
\* holding any IDs, every entry with the same content.
FlushStores == {s \in Stores : \A id \in Ids : s[id] # NilEntry => s[id].content = "v1"}

FlushInit ==
  /\ ChainQuiet /\ EntryQuiet /\ IdQuiet /\ FrontQuiet
  /\ drivers \in UNION {[1..n -> FlushStores] : n \in 0..MaxTiers}
  /\ perIteration \in BOOLEAN
  /\ before = drivers
  /\ calls = <<>>
  /\ ret = Idle

FlushNext == Flush \/ Return

FlushSpec == FlushInit /\ [][FlushNext]_vars

\* ------------------------------------------------- claims on the SyncDriver
NumTiers == Len(before)
Succeeded(c) == c.ok /\ c.err = NoErr

\* The Read that has returned missed, without error, on the m-1 drivers in front of
\* driver m and hit on driver m.
ReadHitBehind(m) ==
  /\ ret.op = "Read"
  /\ m >= 2 /\ m <= NumTiers /\ Len(calls) >= m
  /\ \A k \in 1..(m - 1) : calls[k] = Call(k, "Read", ret.id, FALSE, NoErr)
  /\ calls[m] = Call(m, "Read", ret.id, TRUE, NoErr)

\* C1: when the front M drivers miss without error and driver M hits, Read returns
\* that entry as a hit and on return each of the M missed drivers holds it under the
\* ID (here for the runs in which no write-back call failed).
C1_ReadFillsBack ==
  \A m \in 2..MaxTiers :
    (ReadHitBehind(m) /\ \A k \in 1..Len(calls) : calls[k].method = "Write" => Succeeded(calls[k]))
      => /\ ret.ok /\ ret.err = NoErr /\ ret.e = before[m][ret.id]
         /\ \A t \in 1..(m - 1) : drivers[t][ret.id] = ret.e

\* The Write that has returned, on two drivers, wrote the first and got an error
\* from the second.
WriteFailedOnSecond ==
  /\ ret.op = "Write"
  /\ NumTiers = 2
  /\ \E k \in 1..(Len(calls) - 1) :
       /\ calls[k] = Call(1, "Write", ret.id, TRUE, NoErr)
       /\ calls[k + 1] = Call(2, "Write", ret.id, FALSE, Err(2, "Write"))

\* C2: on two drivers, when the first driver's write succeeds and the second's
\* returns an error, Write returns ok=false with that error and the first driver
\* holds for the ID what it held before Write was called (here for the runs in
\* which no call on the first driver failed).
C2_WriteRollsBack ==
  (WriteFailedOnSecond /\ \A k \in 1..Len(calls) : calls[k].tier = 1 => calls[k].err = NoErr)
    => /\ ~ret.ok /\ ret.err = Err(2, "Write")
       /\ drivers[1][ret.id] = before[1][ret.id]

\* The error of the last driver call, in calling order, that returned one.
RECURSIVE LastError(_, _)
LastError(log, k) ==
  IF k = 0 THEN NoErr
  ELSE IF log[k].err # NoErr THEN log[k].err ELSE LastError(log, k - 1)

\* C3: Delete returns the error of the last driver, in back-to-front visiting
\* order, that returned an error, and nil only if no driver returned one.
C3_DeleteLastError ==
  ret.op = "Delete" => ret.err = LastError(calls, Len(calls))

\* C4: Delete and DeleteAggregate call every driver's Delete exactly once, the last
\* driver first and the first driver last, whatever the drivers return, and
\* DeleteAggregate returns one ok and one error per driver in that order.
C4_DeleteVisitsAll ==
  ret.op \in {"Delete", "DeleteAggregate"} =>
    /\ Len(calls) = NumTiers
    /\ \A i \in 1..NumTiers :
         /\ calls[i].tier = NumTiers - i + 1
         /\ calls[i].method = "Delete"
         /\ calls[i].id = ret.id
    /\ ret.op = "DeleteAggregate" =>
         /\ Len(ret.oks) = NumTiers /\ Len(ret.errors) = NumTiers
         /\ \A i \in 1..NumTiers : ret.oks[i] = calls[i].ok /\ ret.errors[i] = calls[i].err

\* A DeleteAggregate on three drivers has returned: the back driver failed with an
\* error, the middle driver reported ok=false and the front driver succeeded.
C4_Witness ==
  /\ ret.op = "DeleteAggregate" /\ NumTiers = 3 /\ Len(calls) = 3
  /\ calls[1].err # NoErr /\ ~calls[2].ok /\ calls[3].ok

C6_ScanIsAuthority ==
  (ret.op = "Scan" /\ NumTiers >= 1) =>
    /\ ~ret.panic
    /\ Len(calls) = 1 /\ calls[1].tier = NumTiers /\ calls[1].method = "Scan"
    /\ ret.ok = calls[1].ok /\ ret.err = calls[1].err
    /\ ret.ids = IF calls[1].ok THEN {id \in Ids : before[NumTiers][id] # NilEntry} ELSE {}
    /\ drivers = before

\* A Scan on three drivers has returned the back driver's IDs while the two front
\* drivers hold other IDs.
C6_Witness ==
  /\ ret.op = "Scan" /\ NumTiers = 3 /\ ret.ok /\ ret.ids = {"k1"}
  /\ before[1]["k1"] = NilEntry /\ before[1]["k2"] # NilEntry
  /\ before[2]["k1"] # NilEntry /\ before[2]["k2"] # NilEntry

\* The calls of a Write, in order: the Read that captures the prior value (its
\* reads, then one write-back per missed driver after a hit), the write loop, and
\* after an error the rollback.
RECURSIVE LeadingReads(_, _)
LeadingReads(log, k) ==
  IF k < Len(log) /\ log[k + 1].method = "Read" THEN LeadingReads(log, k + 1) ELSE k
PriorReads == LeadingReads(calls, 0)
PriorFailed == PriorReads > 0 /\ calls[PriorReads].err # NoErr
PriorLen ==
  IF PriorReads > 0 /\ calls[PriorReads].ok THEN 2 * PriorReads - 1 ELSE PriorReads
\* Call t of the write loop is a write of the ID to driver t.
LoopWrote(t) ==
  /\ PriorLen + t <= Len(calls)
  /\ calls[PriorLen + t].tier = t
  /\ calls[PriorLen + t].method = "Write"
  /\ calls[PriorLen + t].id = ret.id
NoErrorAfterPrior == \A k \in (PriorLen + 1)..Len(calls) : calls[k].err = NoErr

\* C14: after a Write(e) on one or more drivers has returned ok=true with no
\* error, every driver holds e under e.ID() and a Read in which no driver fails
\* returns e, whatever the drivers held under that ID before.
C14_WriteThenRead ==
  (ret.op = "Write" /\ NumTiers >= 1 /\ ret.ok /\ ret.err = NoErr) =>
    /\ \A t \in 1..NumTiers : drivers[t][ret.id] = ret.e
    /\ LET r == SyncRead([drv |-> drivers, log |-> <<>>], ret.id, {}, perIteration) IN
       r.ok /\ r.err = NoErr /\ r.e = ret.e

\* A Write on two drivers that both held another content under the ID has
\* returned ok=true.
C14_Witness ==
  /\ ret.op = "Write" /\ NumTiers = 2 /\ ret.ok /\ ret.err = NoErr
  /\ \A t \in 1..2 : before[t][ret.id] # NilEntry /\ before[t][ret.id] # ret.e

\* C15: Write returns ok=true if and only if its write loop wrote every driver with
\* ok=true and no error; when the prior value was captured, no call later than
\* that returned an error and some driver's write reported ok=false, the write loop
\* has written every driver front to back, nothing was rolled back, and Write
\* returns ok=false with no error.
C15_WriteOkIsAnd ==
  ret.op = "Write" =>
    /\ ret.ok <=>
         /\ ~PriorFailed
         /\ \A t \in 1..NumTiers : LoopWrote(t) /\ Succeeded(calls[PriorLen + t])
    /\ (/\ ~PriorFailed /\ NoErrorAfterPrior
        /\ \E k \in (PriorLen + 1)..Len(calls) : ~calls[k].ok) =>
         /\ Len(calls) = PriorLen + NumTiers
         /\ \A t \in 1..NumTiers : LoopWrote(t)
         /\ ~ret.ok /\ ret.err = NoErr

\* A Write on three drivers has returned ok=false with no error: the front driver
\* reported ok=false and the two behind it were written.
C15_Witness ==
  /\ ret.op = "Write" /\ NumTiers = 3 /\ ~ret.ok /\ ret.err = NoErr
  /\ Len(calls) = PriorLen + 3
  /\ ~calls[PriorLen + 1].ok
  /\ Succeeded(calls[PriorLen + 2]) /\ Succeeded(calls[PriorLen + 3])
  /\ drivers[3][ret.id] = ret.e /\ before[3][ret.id] # ret.e

\* The Write that has returned captured the prior value, wrote the drivers in front
\* of driver j without error and got an error from driver j's write.
WriteFailedAt(j) ==
  /\ ret.op = "Write" /\ ~PriorFailed
  /\ j >= 1 /\ j <= NumTiers
  /\ \A t \in 1..j : LoopWrote(t)
  /\ \A t \in 1..(j - 1) : calls[PriorLen + t].err = NoErr
  /\ calls[PriorLen + j].err # NoErr
\* The drivers in front of driver j whose write reported ok=true.
WrittenBefore(j) == {t \in 1..(j - 1) : calls[PriorLen + t].ok}
\* The prior value Write captured: nil after a miss.
PriorEntry ==
  IF PriorReads > 0 /\ calls[PriorReads].ok THEN before[PriorReads][ret.id] ELSE NilEntry
\* The members of a set of driver indexes, the highest first.
RECURSIVE Descending(_)
Descending(S) ==
  IF S = {} THEN <<>>
  ELSE LET top == CHOOSE t \in S : \A u \in S : u <= t IN <<top>> \o Descending(S \ {top})

\* C35: when driver j's write returns an error, Write calls no driver behind j; the
\* calls after that write are one rollback call per driver in front of j whose
\* write reported ok=true, the highest index first, a Write of the prior entry when
\* there was one and a Delete of the ID otherwise, which leaves that driver holding
\* the prior entry or nothing when the call succeeds; Write returns ok=false with
\* driver j's error whatever the rollback calls return.
C35_WriteRollbackScope ==
  \A j \in 1..MaxTiers :
    WriteFailedAt(j) =>
      LET undo == Descending(WrittenBefore(j)) IN
      /\ Len(calls) = PriorLen + j + Len(undo)
      /\ \A k \in 1..Len(undo) :
           LET c == calls[PriorLen + j + k] IN
           /\ c.tier = undo[k] /\ c.id = ret.id
           /\ c.method = IF PriorEntry # NilEntry THEN "Write" ELSE "Delete"
           /\ Succeeded(c) => drivers[undo[k]][ret.id] = PriorEntry
      /\ ~ret.ok /\ ret.err = calls[PriorLen + j].err

\* C37: when the Read by which Write captures the prior value returns an error,
\* Write returns ok=false with that error, has called no driver's Write or Delete
\* and no driver behind the failing one, and every driver holds what it held.
C37_WriteStopsAtReadError ==
  (ret.op = "Write" /\ PriorFailed) =>
    /\ ~ret.ok /\ ret.err = calls[PriorReads].err
    /\ Len(calls) = PriorReads
    /\ \A k \in 1..Len(calls) : calls[k].method = "Read" /\ calls[k].tier = k
    /\ drivers = before

\* A Write on three drivers has returned the error the middle driver's Read gave:
\* the front driver missed, and the entry differs from what the back driver holds.
C37_Witness ==
  /\ ret.op = "Write" /\ NumTiers = 3 /\ PriorFailed /\ PriorReads = 2
  /\ ~ret.ok /\ ret.err = Err(2, "Read")
  /\ before[1][ret.id] = NilEntry /\ before[3][ret.id] # ret.e

\* The Read that has returned missed without error on the m-1 drivers in front of
\* driver m, if any, and hit on driver m.
ReadHitAt(m) ==
  /\ ret.op = "Read"
  /\ m >= 1 /\ m <= NumTiers /\ Len(calls) >= m
  /\ \A k \in 1..(m - 1) : calls[k] = Call(k, "Read", ret.id, FALSE, NoErr)
  /\ calls[m] = Call(m, "Read", ret.id, TRUE, NoErr)

\* C36: after a hit on driver m the calls of Read that follow are one Write of the
\* ID per driver that missed, to drivers m-1, m-2, ..., 1 in that order, and none to
\* driver m or a driver behind it; Read returns the entry as a hit with no error
\* whatever those writes return.
C36_ReadFillBackOrder ==
  \A m \in 1..MaxTiers :
    ReadHitAt(m) =>
      /\ Len(calls) = m + (m - 1)
      /\ \A k \in 1..(m - 1) :
           /\ calls[m + k].tier = m - k
           /\ calls[m + k].method = "Write" /\ calls[m + k].id = ret.id
      /\ ret.ok /\ ret.err = NoErr /\ ret.e = before[m][ret.id]

\* The Read that has returned missed without error on the j-1 drivers in front of
\* driver j and got an error from driver j.
ReadFailedAt(j) ==
  /\ ret.op = "Read"
  /\ j >= 1 /\ j <= NumTiers /\ Len(calls) >= j
  /\ \A k \in 1..(j - 1) : calls[k] = Call(k, "Read", ret.id, FALSE, NoErr)
  /\ calls[j].tier = j /\ calls[j].method = "Read" /\ calls[j].err # NoErr

\* C16: when the drivers in front of driver j miss without error and driver j
\* returns an error, Read returns (nil, false, that error), calls no driver behind j,
\* writes nothing back, and every driver holds what it held.
C16_ReadFailsFast ==
  \A j \in 1..MaxTiers :
    ReadFailedAt(j) =>
      /\ ret.e = NilEntry /\ ~ret.ok /\ ret.err = calls[j].err
      /\ Len(calls) = j
      /\ drivers = before

\* A Read on three drivers has returned the middle driver's error; the front driver
\* missed and the back driver holds the ID.
C16_Witness ==
  /\ ReadFailedAt(2) /\ NumTiers = 3
  /\ before[3][ret.id] # NilEntry
  /\ ret.err = Err(2, "Read")

\* C17: a Read of an ID that no driver holds, in which no driver returns an error,
\* consults every driver, returns (nil, false, nil) and changes no driver.
C17_MissIsNoError ==
  (/\ ret.op = "Read"
   /\ \A t \in 1..NumTiers : before[t][ret.id] = NilEntry
   /\ \A k \in 1..Len(calls) : calls[k].err = NoErr) =>
    /\ ret.e = NilEntry /\ ~ret.ok /\ ret.err = NoErr
    /\ Len(calls) = NumTiers
    /\ \A k \in 1..NumTiers : calls[k] = Call(k, "Read", ret.id, FALSE, NoErr)
    /\ drivers = before

\* A Read on three drivers, none holding the ID, has returned a miss.
C17_Witness ==
  /\ ret.op = "Read" /\ NumTiers = 3 /\ Len(calls) = 3
  /\ \A t \in 1..3 : before[t][ret.id] = NilEntry
  /\ ~ret.ok /\ ret.err = NoErr

\* C18: Has asks the drivers front to back and stops at the first that answers
\* with an error or with presence: it returns (false, that error) or (true, nil);
\* it returns (false, nil) exactly when every driver has answered absence without
\* error; it changes no driver.
C18_HasStopsAtFirst ==
  ret.op = "Has" =>
    /\ Len(calls) <= NumTiers
    /\ \A k \in 1..Len(calls) :
         /\ calls[k].tier = k /\ calls[k].method = "Has" /\ calls[k].id = ret.id
         /\ k < Len(calls) => ~calls[k].ok /\ calls[k].err = NoErr
    /\ IF Len(calls) = 0 THEN ~ret.ok /\ ret.err = NoErr
       ELSE IF calls[Len(calls)].err # NoErr
       THEN ~ret.ok /\ ret.err = calls[Len(calls)].err
       ELSE IF calls[Len(calls)].ok THEN ret.ok /\ ret.err = NoErr
       ELSE Len(calls) = NumTiers /\ ~ret.ok /\ ret.err = NoErr
    /\ (~ret.ok /\ ret.err = NoErr) <=>
         /\ Len(calls) = NumTiers
         /\ \A k \in 1..NumTiers : ~calls[k].ok /\ calls[k].err = NoErr
    /\ \A k \in 1..Len(calls) :
         calls[k].err = NoErr => (calls[k].ok <=> before[k][ret.id] # NilEntry)
    /\ drivers = before

\* A Has on three drivers has returned true from the middle driver: the front
\* driver does not hold the ID and the back driver was not asked.
C18_Witness ==
  /\ ret.op = "Has" /\ NumTiers = 3 /\ ret.ok /\ Len(calls) = 2
  /\ before[1][ret.id] = NilEntry /\ before[2][ret.id] # NilEntry

\* The errors of the Flush calls k..Len(calls), in the order the calls were made.
RECURSIVE ErrorsFrom(_)
ErrorsFrom(k) == IF k > Len(calls) THEN <<>> ELSE calls[k].errs \o ErrorsFrom(k + 1)

\* C19: Flush calls the flush of every driver exactly once, back to front, whatever
\* the drivers answer; it returns ok=true iff every driver returned ok=true with no
\* errors; its errors are the drivers' errors concatenated in that order; after a
\* Flush that returned ok=true with no errors, Has(id) is false for every ID.
C19_FlushVisitsAll ==
  ret.op = "Flush" =>
    /\ Len(calls) = NumTiers
    /\ \A k \in 1..NumTiers :
         calls[k].method = "Flush" /\ calls[k].tier = NumTiers - k + 1
    /\ ret.ok <=> \A k \in 1..NumTiers : calls[k].ok /\ calls[k].errs = <<>>
    /\ ret.errs = ErrorsFrom(1)
    /\ (ret.ok /\ ret.errs = <<>>) =>
         \A id \in Ids :
           LET h == SyncHas([drv |-> drivers, log |-> <<>>], id, {}) IN
           ~h.ok /\ h.err = NoErr

\* A Flush on three drivers holding entries: the back driver failed with an error,
\* the middle one returned ok=false, and the front driver was flushed all the same.
C19_Witness ==
  /\ ret.op = "Flush" /\ NumTiers = 3 /\ ~ret.ok
  /\ calls[1].errs # <<>> /\ ~calls[2].ok /\ calls[2].errs = <<>> /\ calls[3].ok
  /\ before[1]["k1"] # NilEntry /\ drivers[1]["k1"] = NilEntry
  /\ drivers[3] = before[3] /\ before[3]["k2"] # NilEntry

\* A Flush on three drivers that all hold entries has succeeded.
C19_WitnessFlushed ==
  /\ ret.op = "Flush" /\ NumTiers = 3 /\ ret.ok /\ ret.errs = <<>>
  /\ \A t \in 1..3 : before[t]["k1"] # NilEntry

\* ------------------------------------------------------ the middleware chain
\* The largest number of middlewares handed to installMiddleware.
MaxMiddlewares == 3
\* The largest number of times the composed handlers are invoked.
MaxInvocations == 2

\* The methods of the Middleware interface, one composed handler each.
Handlers ==
  {"Cleanup", "Count", "Delete", "Expire", "Flush", "Has", "Read", "Review", "Scan",
   "Search", "Write"}

\* What a middleware's method does with its next argument during one invocation:
\* call it once and return its result, not call it, or call it twice.
Behaviours == {"next", "skip", "twice"}

\* d.driver.Read and its like: the first element of each handler list.
driverMethod(h) == [kind |-> "driver", handler |-> h]

\* func(...) { return m.Read(id, lread) } and its like: a closure over m and lread.
closure(h, m, lnext) == [kind |-> "middleware", handler |-> h, m |-> m, next |-> lnext]

\* A loop that wraps the middlewares last to first.
wrappedReversed(mws, i) == mws[Len(mws) - i]

\* m := middlewares[i].
wrapped(mws, i) == mws[i + 1]

\* A loop in which every closure takes the driver's method as its next.
capturedFirst(list, i) == list[1]

\* lread := read[i] and its like.
captured(list, i) == list[i + 1]

\* The loop of installMiddleware for one handler: read = append(read, closure).
RECURSIVE handlerList(_, _, _, _)
handlerList(h, mws, i, list) ==
  IF i >= Len(mws) THEN list
  ELSE handlerList(h, mws, i + 1,
                   Append(list, closure(h, wrapped(mws, i), captured(list, i))))

\* installMiddleware(middlewares): element n of each list, n the index of the last.
installMiddleware(mws) ==
  [h \in Handlers |->
     LET list == handlerList(h, mws, 0, <<driverMethod(h)>>)
         n == Len(list) - 1
     IN list[n + 1]]

\* What a call of a handler enters, in order, and what it returns.
Entered(link) == [kind |-> link.kind, handler |-> link.handler,
                  who |-> IF link.kind = "driver" THEN 0 ELSE link.m]
RECURSIVE call(_, _)
call(link, b) ==
  IF link.kind = "driver"
  THEN [entered |-> <<Entered(link)>>, result |-> Entered(link)]
  ELSE CASE b[link.m] = "skip" ->
              [entered |-> <<Entered(link)>>, result |-> Entered(link)]
         [] b[link.m] = "next" ->
              LET r == call(link.next, b) IN
              [entered |-> <<Entered(link)>> \o r.entered, result |-> r.result]
         [] b[link.m] = "twice" ->
              LET r1 == call(link.next, b)
                  r2 == call(link.next, b)
              IN [entered |-> <<Entered(link)>> \o r1.entered \o r2.entered,
                  result |-> r2.result]

\* A databank is being made with some middlewares; none is installed yet.
ChainInit ==
  /\ SyncQuiet /\ EntryQuiet /\ IdQuiet /\ FrontQuiet
  /\ middlewares \in {[i \in 1..n |-> i] : n \in 0..MaxMiddlewares}
  /\ middleware = <<>>
  /\ invoked = 0
  /\ handled = NoCall

Install ==
  /\ middleware = <<>>
  /\ middleware' = installMiddleware(middlewares)
  /\ UNCHANGED <<middlewares, invoked, handled, syncVars, entryVars, idVars, frontVars>>

Invoke ==
  /\ middleware # <<>>
  /\ invoked < MaxInvocations
  /\ \E h \in Handlers, b \in [1..Len(middlewares) -> Behaviours] :
       LET r == call(middleware[h], b) IN
       handled' = [op |-> h, behaviour |-> b, entered |-> r.entered, result |-> r.result]
  /\ invoked' = invoked + 1
  /\ UNCHANGED <<middlewares, middleware, syncVars, entryVars, idVars, frontVars>>

ChainNext == Install \/ Invoke

ChainSpec == ChainInit /\ [][ChainNext]_vars

\* ---------------------------------------------- claims on the middleware chain
Configured == Len(middlewares)
EnteredMiddleware(m, h) == [kind |-> "middleware", handler |-> h, who |-> m]
EnteredDriver(h) == [kind |-> "driver", handler |-> h, who |-> 0]

\* C7: with middlewares [A, B] (B the last configured, A any before it), a composed
\* handler enters B first, and when B does not call its next, no other middleware
\* and no driver method is entered and what B returns is the result.
C7_LastEntersFirst ==
  (handled # NoCall /\ Configured >= 2) =>
    /\ handled.entered[1] = EnteredMiddleware(middlewares[Configured], handled.op)
    /\ handled.behaviour[middlewares[Configured]] = "skip" =>
         /\ handled.entered = <<EnteredMiddleware(middlewares[Configured], handled.op)>>
         /\ handled.result = EnteredMiddleware(middlewares[Configured], handled.op)

\* Read was invoked on [A, B]: B did not call its next, A would have.
C7_Witness ==
  /\ handled # NoCall /\ Configured = 2 /\ handled.op = "Read"
  /\ handled.behaviour[2] = "skip" /\ handled.behaviour[1] = "next"
  /\ Len(handled.entered) = 1

\* The handler k closures below a handler; a driver's method has nothing below it.
RECURSIVE Below(_, _)
Below(link, k) ==
  IF k = 0 \/ link.kind = "driver" THEN link ELSE Below(link.next, k - 1)

\* C8: when every middleware calls its next exactly once, every invocation of a
\* composed handler, the first and any later one, enters the middlewares last
\* configured to first and then the driver's method of the same name, once each;
\* the next of the closure over middleware i is the handler of middleware i-1, that
\* of the first middleware is the driver's method, and with no middleware the
\* composed handler is the driver's method.
C8_ChainIsReusable ==
  /\ middleware # <<>> =>
       \A h \in Handlers :
         /\ Below(middleware[h], Configured) = driverMethod(h)
         /\ \A i \in 1..Configured :
              /\ Below(middleware[h], Configured - i).kind = "middleware"
              /\ Below(middleware[h], Configured - i).m = middlewares[i]
              /\ Below(middleware[h], Configured - i).handler = h
  /\ (handled # NoCall /\ \A m \in 1..Configured : handled.behaviour[m] = "next") =>
       /\ Len(handled.entered) = Configured + 1
       /\ \A k \in 1..Configured :
            handled.entered[k] =
              EnteredMiddleware(middlewares[Configured - k + 1], handled.op)
       /\ handled.entered[Configured + 1] = EnteredDriver(handled.op)
       /\ handled.result = EnteredDriver(handled.op)

\* A composed handler of three middlewares, each calling its next once, has been
\* invoked a second time and reached the driver.
C8_Witness ==
  /\ invoked = 2 /\ Configured = 3 /\ handled # NoCall
  /\ \A m \in 1..3 : handled.behaviour[m] = "next"
  /\ Len(handled.entered) = 4 /\ handled.entered[4].kind = "driver"

\* --------------------------------------------------------------- the Entry
\* The latest reading of the clock.
MaxTime == 4
\* The longest TTL an entry is made with.
MaxTTL == 3

\* NewEntry(key, ttl) at time t: the entry's metadata.
NewEntry(t, ttl) ==
  [created |-> t, expires |-> t + ttl, expiresNever |-> ttl = 0, expired |-> FALSE]

\* Entry.Lifetime().
Lifetime(e) == e.expires - e.created

\* An Expire that flips the flag.
ExpireToggles(e) == [e EXCEPT !.expired = ~e.expired]

\* Entry.Expire().
Expire(e) == [e EXCEPT !.expired = TRUE]

\* A ShouldExpire for which an entry is due at the instant of its expiry.
ShouldExpireInclusive(e, t) ==
  IF e.expired \/ e.expiresNever THEN FALSE ELSE e.expires <= t

\* Entry.ShouldExpire() at time t: Expires.Before(time.Now()).
ShouldExpire(e, t) ==
  IF e.expired \/ e.expiresNever THEN FALSE ELSE e.expires < t

\* A lazy expiration that leaves the flag as it is.
MaybeExpireKeeps(e, t) == [e |-> e, se |-> ShouldExpire(e, t)]

\* Entry.MaybeExpire() at time t.
MaybeExpire(e, t) ==
  [e |-> IF ShouldExpire(e, t) THEN Expire(e) ELSE e, se |-> ShouldExpire(e, t)]

\* Entry.Touch() at time t: Created is assigned first, and Lifetime() reads it.
Touch(e, t) ==
  LET moved == [e EXCEPT !.created = t] IN
  [moved EXCEPT !.expires = moved.created + Lifetime(moved)]

EntryInit ==
  /\ SyncQuiet /\ ChainQuiet /\ IdQuiet /\ FrontQuiet
  /\ now = 0
  /\ entry = NoCall
  /\ last = NoCall

\* time.Now() moves on.
Tick ==
  /\ now < MaxTime
  /\ now' = now + 1
  /\ UNCHANGED <<entry, last, syncVars, chainVars, idVars, frontVars>>

CallNewEntry ==
  /\ \E ttl \in 0..MaxTTL : entry' = NewEntry(now, ttl)
  /\ last' = [op |-> "NewEntry", at |-> now, was |-> entry]
  /\ UNCHANGED <<now, syncVars, chainVars, idVars, frontVars>>

CallExpire ==
  /\ entry # NoCall
  /\ entry' = Expire(entry)
  /\ last' = [op |-> "Expire", at |-> now, was |-> entry]
  /\ UNCHANGED <<now, syncVars, chainVars, idVars, frontVars>>

CallMaybeExpire ==
  /\ entry # NoCall
  /\ entry' = MaybeExpire(entry, now).e
  /\ last' = [op |-> "MaybeExpire", at |-> now, was |-> entry,
              se |-> MaybeExpire(entry, now).se]
  /\ UNCHANGED <<now, syncVars, chainVars, idVars, frontVars>>

CallTouch ==
  /\ entry # NoCall
  /\ entry' = Touch(entry, now)
  /\ last' = [op |-> "Touch", at |-> now, was |-> entry]
  /\ UNCHANGED <<now, syncVars, chainVars, idVars, frontVars>>

\* Entry.ShouldExpire() and Entry.Lifetime() read the metadata; Entry.ID() reads Key
\* and Tags, and Entry.CalculateSize() writes Size: the metadata stay as they are.
CallShouldExpire ==
  /\ entry # NoCall
  /\ last' = [op |-> "ShouldExpire", at |-> now, was |-> entry,
              se |-> ShouldExpire(entry, now)]
  /\ UNCHANGED <<entry, now, syncVars, chainVars, idVars, frontVars>>

CallLifetime ==
  /\ entry # NoCall
  /\ last' = [op |-> "Lifetime", at |-> now, was |-> entry, lifetime |-> Lifetime(entry)]
  /\ UNCHANGED <<entry, now, syncVars, chainVars, idVars, frontVars>>

CallID ==
  /\ entry # NoCall
  /\ last' = [op |-> "ID", at |-> now, was |-> entry]
  /\ UNCHANGED <<entry, now, syncVars, chainVars, idVars, frontVars>>

CallCalculateSize ==
  /\ entry # NoCall
  /\ last' = [op |-> "CalculateSize", at |-> now, was |-> entry]
  /\ UNCHANGED <<entry, now, syncVars, chainVars, idVars, frontVars>>

EntryNext ==
  \/ Tick \/ CallNewEntry \/ CallExpire \/ CallMaybeExpire \/ CallTouch
  \/ CallShouldExpire \/ CallLifetime \/ CallID \/ CallCalculateSize

EntrySpec == EntryInit /\ [][EntryNext]_vars

\* ------------------------------------------------------ claims on the Entry
\* C9: touch() at time t on an entry of lifetime L = expires - created sets
\* created = t and expires = t + L, so lifetime() is L before and after.
C9_TouchKeepsLifetime ==
  last.op = "Touch" =>
    /\ entry.created = last.at
    /\ entry.expires = last.at + Lifetime(last.was)
    /\ Lifetime(entry) = Lifetime(last.was)

\* C26 as stated: ShouldExpire returns true exactly when the entry is not flagged
\* expired, is not expiresNever, and the current time is at or after expires; an
\* entry made with TTL 0 never satisfies it, and MaybeExpire never flips its flag.
C26_DueAtOrAfterExpires ==
  /\ last.op = "ShouldExpire" =>
       (last.se <=> (~entry.expired /\ ~entry.expiresNever /\ last.at >= entry.expires))
  /\ (last.op \in {"ShouldExpire", "MaybeExpire"} /\ last.was.expiresNever) => ~last.se
  /\ (last.op = "MaybeExpire" /\ last.was.expiresNever) => entry = last.was

\* C26, amended: ShouldExpire returns true exactly when the entry is not flagged
\* expired, is not expiresNever, and the current time is after expires: at the
\* instant of expires it returns false; an entry made with TTL 0 never satisfies it,
\* and MaybeExpire never flips its flag.
C26_DueAfterExpires ==
  /\ last.op = "ShouldExpire" =>
       (last.se <=> (~entry.expired /\ ~entry.expiresNever /\ last.at > entry.expires))
  /\ (last.op \in {"ShouldExpire", "MaybeExpire"} /\ last.was.expiresNever) => ~last.se
  /\ (last.op = "MaybeExpire" /\ last.was.expiresNever) => entry = last.was
  /\ (entry # NoCall /\ last.op = "NewEntry") =>
       (entry.expiresNever <=> Lifetime(entry) = 0)

\* ShouldExpire has returned false at the very instant an entry of TTL 1 or more,
\* not flagged expired, expires.
C26_Witness ==
  /\ last.op = "ShouldExpire" /\ ~entry.expired /\ ~entry.expiresNever
  /\ Lifetime(entry) >= 1 /\ last.at = entry.expires /\ ~last.se

\* MaybeExpire has left an entry made with TTL 0 alone, after the time of its
\* expires field.
C26_WitnessNever ==
  /\ last.op = "MaybeExpire" /\ entry.expiresNever /\ ~entry.expired
  /\ last.at > entry.expires /\ ~last.se

\* C27: once an entry is flagged expired, Expire, MaybeExpire, ShouldExpire,
\* Lifetime, ID and CalculateSize leave it flagged, at any time; and MaybeExpire
\* returns true exactly when it has turned the flag from false to true.
C27_FlagIsSticky ==
  /\ [](last.op = "MaybeExpire" => (last.se <=> (~last.was.expired /\ entry.expired)))
  /\ [][(/\ entry # NoCall /\ entry.expired
          /\ last'.op \in {"Expire", "MaybeExpire", "ShouldExpire", "Lifetime", "ID",
                            "CalculateSize"})
         => entry'.expired]_vars

\* MaybeExpire has been called on a flagged entry after its expiry: it returned
\* false and the entry is still flagged.
C27_Witness ==
  /\ last.op = "MaybeExpire" /\ last.was.expired /\ ~last.was.expiresNever
  /\ last.at > last.was.expires /\ ~last.se /\ entry.expired

\* ----------------------------------------------------------------- EntryID
\* Strings are sequences of bytes; a uint64 is its eight bytes, lowest first.
\* The largest number of tags in a tag mapping.
MaxTags == 3

Keys == {<<107>>, <<107, 50>>}
TagKeys == {<<97>>, <<98>>, <<97, 98>>, <<66>>}
TagValues == {<<49>>, <<50>>}
TagMaps ==
  UNION {[d -> TagValues] : d \in {x \in SUBSET TagKeys : Cardinality(x) <= MaxTags}}

\* offset64 = 14695981039346656037 = 0xcbf29ce484222325.
offset64 == <<37, 35, 34, 132, 228, 156, 242, 203>>
\* prime64 = 1099511628211 = 0x00000100000001b3.
prime64 == <<179, 1, 0, 0, 0, 1, 0, 0>>

\* a ^ b on bytes.
RECURSIVE Xor(_, _)
Xor(a, b) ==
  IF a = 0 THEN b
  ELSE IF b = 0 THEN a
  ELSE ((a + b) % 2) + 2 * Xor(a \div 2, b \div 2)

\* Byte k (from 1) of a * b, uint64 arithmetic: the product wraps at 2^64.
RECURSIVE Column(_, _, _, _)
Column(a, b, k, i) ==
  IF i > k THEN 0 ELSE a[i] * b[k - i + 1] + Column(a, b, k, i + 1)
RECURSIVE MulFrom(_, _, _, _)
MulFrom(a, b, k, carry) ==
  IF k > 8 THEN <<>>
  ELSE LET sum == Column(a, b, k, 1) + carry IN
       <<sum % 256>> \o MulFrom(a, b, k + 1, sum \div 256)
Mul64(a, b) == MulFrom(a, b, 1, 0)

\* sum64(key): hash ^= uint64(key[i]); hash *= prime64, from offset64. The loop's
\* state is the hash so far and the bytes still to come.
RECURSIVE sum64Loop(_)
sum64Loop(s) ==
  IF s.key = <<>> THEN s.hash
  ELSE sum64Loop([hash |-> Mul64([s.hash EXCEPT ![1] = Xor(s.hash[1], Head(s.key))], prime64),
                  key |-> Tail(s.key)])
sum64(key) == sum64Loop([hash |-> offset64, key |-> key])

\* %d of a uint64: its decimal digits.
RECURSIVE DivTen(_, _, _)
DivTen(n, k, rem) ==
  IF k = 0 THEN [q |-> <<>>, r |-> rem]
  ELSE LET cur == rem * 256 + n[k]
           low == DivTen(n, k - 1, cur % 10)
       IN [q |-> Append(low.q, cur \div 10), r |-> low.r]
RECURSIVE Decimal(_)
Decimal(n) ==
  LET d == DivTen(n, 8, 0) IN
  IF \A k \in 1..8 : d.q[k] = 0 THEN <<48 + d.r>>
  ELSE Append(Decimal(d.q), 48 + d.r)

\* a < b on strings, byte by byte.
RECURSIVE Less(_, _)
Less(a, b) ==
  IF b = <<>> THEN FALSE
  ELSE IF a = <<>> THEN TRUE
  ELSE IF Head(a) # Head(b) THEN Head(a) < Head(b)
  ELSE Less(Tail(a), Tail(b))

\* An EntryID that hashes the tags in the order the map yields them.
Unsorted(keys) == keys

\* sort.Strings(keys).
RECURSIVE Insert(_, _)
Insert(sorted, k) ==
  IF sorted = <<>> THEN <<k>>
  ELSE IF Less(k, Head(sorted)) THEN <<k>> \o sorted
  ELSE <<Head(sorted)>> \o Insert(Tail(sorted), k)
RECURSIVE SortFrom(_, _)
SortFrom(keys, sorted) ==
  IF keys = <<>> THEN sorted ELSE SortFrom(Tail(keys), Insert(sorted, Head(keys)))
SortStrings(keys) == SortFrom(keys, <<>>)

\* A tagstr without the format's "&".
RECURSIVE TagStrPairsOnly(_, _, _)
TagStrPairsOnly(tagstr, keys, tags) ==
  IF keys = <<>> THEN tagstr
  ELSE TagStrPairsOnly(tagstr \o Head(keys) \o <<61>> \o tags[Head(keys)], Tail(keys), tags)

\* tagstr = fmt.Sprintf("%s&%s=%s", tagstr, k, tags[k]) for each k of keys.
RECURSIVE TagStr(_, _, _)
TagStr(tagstr, keys, tags) ==
  IF keys = <<>> THEN tagstr
  ELSE TagStr(tagstr \o <<38>> \o Head(keys) \o <<61>> \o tags[Head(keys)], Tail(keys), tags)

\* The orders in which a range over the map tags may yield its keys.
RangeOrders(tags) ==
  LET d == DOMAIN tags
      n == Cardinality(d)
  IN {o \in [1..n -> d] : \A i, j \in 1..n : o[i] = o[j] => i = j}

\* EntryID(key, tags), the range over tags yielding its keys in the given order.
EntryID(key, tags, order) ==
  IF Cardinality(DOMAIN tags) > 0
  THEN key \o <<95>> \o Decimal(sum64(TagStr(<<>>, SortStrings(order), tags)))
  ELSE key

\* Any key and any tag mapping.
IdInit ==
  /\ SyncQuiet /\ ChainQuiet /\ EntryQuiet /\ FrontQuiet
  /\ idKey \in Keys
  /\ idTags \in TagMaps
  /\ idResult = NoCall

CallEntryID ==
  /\ \E order \in RangeOrders(idTags) :
       idResult' = [op |-> "EntryID", order |-> order, id |-> EntryID(idKey, idTags, order)]
  /\ UNCHANGED <<idKey, idTags, syncVars, chainVars, entryVars, frontVars>>

\* The caller sets another tag, or another value for a tag.
SetTag ==
  /\ \E k \in TagKeys, v \in TagValues :
       /\ Cardinality(DOMAIN idTags \cup {k}) <= MaxTags
       /\ idTags' = [x \in DOMAIN idTags \cup {k} |-> IF x = k THEN v ELSE idTags[x]]
  /\ idResult' = NoCall
  /\ UNCHANGED <<idKey, syncVars, chainVars, entryVars, frontVars>>

IdNext == CallEntryID \/ SetTag

IdSpec == IdInit /\ [][IdNext]_vars

\* ------------------------------------------------------ claims on EntryID
\* C10: for every key and tag mapping, EntryID returns the same ID in whatever order
\* the tags were inserted or are ranged over.
C10_IdIgnoresOrder ==
  idResult # NoCall =>
    \A order \in RangeOrders(idTags) : EntryID(idKey, idTags, order) = idResult.id

\* EntryID has returned for a mapping of three tags ranged over in descending order.
C10_Witness ==
  /\ idResult # NoCall
  /\ Len(idResult.order) = 3
  /\ Less(idResult.order[3], idResult.order[2])
  /\ Less(idResult.order[2], idResult.order[1])

\* The tag keys in ascending order.
Ascending(tags) ==
  CHOOSE o \in RangeOrders(tags) : \A i, j \in 1..Len(o) : i < j => Less(o[i], o[j])

\* key1=value1&key2=value2&...: the pairs of keys, "&" between them.
RECURSIVE JoinedBetween(_, _)
JoinedBetween(keys, tags) ==
  IF keys = <<>> THEN <<>>
  ELSE Head(keys) \o <<61>> \o tags[Head(keys)] \o
       (IF Tail(keys) = <<>> THEN <<>> ELSE <<38>> \o JoinedBetween(Tail(keys), tags))

\* &key1=value1&key2=value2...: the pairs of keys, "&" in front of each.
RECURSIVE JoinedBefore(_, _)
JoinedBefore(keys, tags) ==
  IF keys = <<>> THEN <<>>
  ELSE <<38>> \o Head(keys) \o <<61>> \o tags[Head(keys)] \o JoinedBefore(Tail(keys), tags)

\* C11 as stated: EntryID(key, tags) is key when tags is empty, and otherwise key,
\* "_" and the hash of the tag keys in ascending order joined as
\* key1=value1&key2=value2&... .
C11_IdHashesJoinedPairs ==
  idResult # NoCall =>
    idResult.id =
      IF DOMAIN idTags = {} THEN idKey
      ELSE idKey \o <<95>> \o Decimal(sum64(JoinedBetween(Ascending(idTags), idTags)))

\* C11 amended: EntryID(key, tags) is key when tags is empty, and otherwise key, "_"
\* and the decimal FNV-1a hash of the tag keys in ascending order, each pair written
\* &key=value, so that the hashed string starts with "&".
C11_IdHashesPrefixedPairs ==
  idResult # NoCall =>
    idResult.id =
      IF DOMAIN idTags = {} THEN idKey
      ELSE idKey \o <<95>> \o Decimal(sum64(JoinedBefore(Ascending(idTags), idTags)))

\* EntryID has returned for a mapping of two tags ranged over in descending order.
C11_Witness ==
  /\ idResult # NoCall
  /\ Len(idResult.order) = 2
  /\ Less(idResult.order[2], idResult.order[1])
  /\ idResult.id # idKey

\* --------------------------------------------------- the databank frontend
\* An entry with its size and metadata, as a driver stores it.
WithMeta(id, content, meta) ==
  [id |-> id, content |-> content, size |-> Len(content),
   created |-> meta.created, expires |-> meta.expires,
   expiresNever |-> meta.expiresNever, expired |-> meta.expired]

\* A CalculateSize that leaves Size as it was.
CalculateSizeKeeps(e) == e

\* Entry.CalculateSize().
CalculateSize(e) == [e EXCEPT !.size = Len(e.content)]

\* e.Expire() through a pointer: a driver that hands out the entry it stores
\* (atomic.Driver.Read) holds the expired entry at once, a driver that hands out a
\* copy (disk.Driver.Read) holds what it held.
Through(st, t, id, e, shares) ==
  IF shares THEN [st EXCEPT !.drv[t][id] = e] ELSE st

\* Driver.Expire(id) on tier t, as atomic.Driver and disk.Driver implement it.
driverExpire(st, t, id, plan, shares) ==
  LET r == driverRead(st, t, id, plan) IN
  IF r.err # NoErr THEN [st |-> r.st, ok |-> FALSE, err |-> r.err]
  ELSE IF r.ok
  THEN driverWrite(Through(r.st, t, id, Expire(r.e), shares), t, Expire(r.e), plan)
  ELSE [st |-> r.st, ok |-> TRUE, err |-> NoErr]

\* What databank.Write(e) leaves: the driver's answer w, and e as the caller sees it.
written(w, e) == [st |-> w.st, ok |-> w.ok, err |-> w.err, e |-> e]

\* databank.Write(e): CalculateSize on e, then the driver's ok.
databankWrite(st, e, plan) ==
  written(driverWrite(st, 1, CalculateSize(e), plan), CalculateSize(e))

\* A Read that expires lapsed entries whatever the configuration.
databankReadAlwaysLazy(st, id, plan, shares, hot, t) ==
  LET r == driverRead(st, 1, id, plan) IN
  IF r.ok /\ MaybeExpire(r.e, t).se
  THEN LET e == MaybeExpire(r.e, t).e
           w == databankWrite(Through(r.st, 1, id, CalculateSize(e), shares), e, plan)
       IN [st |-> w.st, e |-> NilEntry, ok |-> FALSE]
  ELSE [st |-> r.st, e |-> r.e, ok |-> r.ok]

\* databank.Read(id) at time t.
databankRead(st, id, plan, shares, hot, t) ==
  LET r == driverRead(st, 1, id, plan) IN
  IF r.ok /\ ~hot /\ MaybeExpire(r.e, t).se
  THEN LET e == MaybeExpire(r.e, t).e
           w == databankWrite(Through(r.st, 1, id, CalculateSize(e), shares), e, plan)
       IN [st |-> w.st, e |-> NilEntry, ok |-> FALSE]
  ELSE [st |-> r.st, e |-> r.e, ok |-> r.ok]

\* databank.Expire(id), databank.Has(id), databank.Delete(id): the driver's ok.
databankExpire(st, id, plan, shares) == driverExpire(st, 1, id, plan, shares)
databankHas(st, id, plan) == driverHas(st, 1, id, plan)
databankDelete(st, id, plan) == driverDelete(st, 1, id, plan)

\* The ways the frontend's driver may misbehave during one frontend call.
FrontPlans ==
  PlansUpTo(MaxFaults, 1, {<<"Read", "err">>, <<"Write", "notok">>, <<"Write", "err">>,
                           <<"Has", "err">>, <<"Delete", "notok">>, <<"Delete", "err">>})

\* The plans that fail only the driver methods a frontend call makes.
PlansOn(methods) == {plan \in FrontPlans : \A a \in plan : a.method \in methods}

\* The plans of a frontend Write, and of a frontend Read or Expire.
OnWrite == PlansOn({"Write"})
OnReadWrite == PlansOn({"Read", "Write"})

\* The IDs the frontend is called with.
FrontIds == {"k1"}

\* databank.New(d, c): a driver that holds nothing yet, and any configuration.
FrontInit ==
  /\ ChainQuiet /\ EntryQuiet /\ IdQuiet
  /\ drivers = <<[id \in Ids |-> NilEntry]>>
  /\ perIteration = TRUE
  /\ before = drivers
  /\ calls = <<>>
  /\ ret = Idle
  /\ config \in [hot : BOOLEAN, lifetime : 0..MaxTTL]

\* databank.WriteString(key, val): NewEntry(key, config.Lifetime) of Size 0, the
\* content, then Write.
DbWriteString ==
  /\ \E id \in FrontIds, content \in Contents, plan \in OnWrite :
       LET e == [WithMeta(id, content, NewEntry(now, config.lifetime)) EXCEPT !.size = 0]
           r == databankWrite(Start, e, plan)
       IN /\ drivers' = r.st.drv
          /\ calls' = r.st.log
          /\ ret' = [op |-> "WriteString", id |-> id, e |-> r.e, ok |-> r.ok, at |-> now]
  /\ before' = drivers
  /\ UNCHANGED <<perIteration, chainVars, entryVars, idVars, frontVars>>

DbRead ==
  /\ \E id \in FrontIds, plan \in OnReadWrite, shares \in BOOLEAN :
       LET r == databankRead(Start, id, plan, shares, config.hot, now) IN
       /\ drivers' = r.st.drv
       /\ calls' = r.st.log
       /\ ret' = [op |-> "Read", id |-> id, e |-> r.e, ok |-> r.ok, at |-> now,
                  shares |-> shares]
  /\ before' = drivers
  /\ UNCHANGED <<perIteration, chainVars, entryVars, idVars, frontVars>>

DbExpire ==
  /\ \E id \in FrontIds, plan \in OnReadWrite, shares \in BOOLEAN :
       LET r == databankExpire(Start, id, plan, shares) IN
       /\ drivers' = r.st.drv
       /\ calls' = r.st.log
       /\ ret' = [op |-> "Expire", id |-> id, ok |-> r.ok, at |-> now, shares |-> shares]
  /\ before' = drivers
  /\ UNCHANGED <<perIteration, chainVars, entryVars, idVars, frontVars>>

DbHas ==
  /\ \E id \in FrontIds, plan \in PlansOn({"Has"}) :
       LET r == databankHas(Start, id, plan) IN
       /\ drivers' = r.st.drv
       /\ calls' = r.st.log
       /\ ret' = [op |-> "Has", id |-> id, ok |-> r.ok, at |-> now]
  /\ before' = drivers
  /\ UNCHANGED <<perIteration, chainVars, entryVars, idVars, frontVars>>

DbDelete ==
  /\ \E id \in FrontIds, plan \in PlansOn({"Delete"}) :
       LET r == databankDelete(Start, id, plan) IN
       /\ drivers' = r.st.drv
       /\ calls' = r.st.log
       /\ ret' = [op |-> "Delete", id |-> id, ok |-> r.ok, at |-> now]
  /\ before' = drivers
  /\ UNCHANGED <<perIteration, chainVars, entryVars, idVars, frontVars>>

FrontNext == DbWriteString \/ DbRead \/ DbExpire \/ DbHas \/ DbDelete \/ Tick

FrontSpec == FrontInit /\ [][FrontNext]_vars

\* --------------------------------------------------- claims on the frontend
\* What the driver held under the ID the frontend was called with.
Was == before[1][ret.id]
\* The driver's Read, the first call of a frontend Read, returned the entry it held.
ReadFound == ret.op = "Read" /\ Was # NilEntry /\ calls[1].ok /\ calls[1].err = NoErr

\* C12: with hot=false, a Read that finds an entry not flagged expired, not
\* expiresNever and past its expiry reports a miss, after which the driver still
\* holds the entry, with expired=true when the driver hands out the entry it stores
\* or the write-back succeeded; a Read before the expiry is a hit and changes nothing.
C12_LazyExpiration ==
  (ReadFound /\ ~config.hot /\ ~Was.expired /\ ~Was.expiresNever) =>
    /\ Was.expires < ret.at =>
         /\ ~ret.ok /\ ret.e = NilEntry
         /\ drivers[1][ret.id] # NilEntry
         /\ databankHas([drv |-> drivers, log |-> <<>>], ret.id, {}).ok
         /\ (ret.shares \/ (Len(calls) = 2 /\ Succeeded(calls[2]))) =>
              drivers[1][ret.id] = Expire(Was)
    /\ ret.at < Was.expires =>
         /\ ret.ok /\ ret.e = Was
         /\ drivers = before

\* A Read after the expiry has reported a miss, and its write-back has stored the
\* expired entry in a driver that hands out copies.
C12_Witness ==
  /\ ReadFound /\ ~config.hot /\ ~Was.expired /\ ~Was.expiresNever
  /\ Was.expires < ret.at /\ ~ret.ok /\ ~ret.shares
  /\ Len(calls) = 2 /\ Succeeded(calls[2])
  /\ drivers[1][ret.id].expired

\* C13: a Read that finds an entry flagged expired reports a miss, and the driver
\* still holds the entry.
C13_ExpiredIsUnreadable ==
  (ReadFound /\ ~config.hot /\ Was.expired) =>
    /\ ~ret.ok
    /\ drivers[1][ret.id] # NilEntry

\* C33: with hot=true a Read calls the driver's Read and nothing else, and leaves
\* the driver as it was: an entry that is found is a hit, returned as the driver
\* held it, lapsed or not. NewConfig() is not hot, and with hot=false a Read that
\* finds a lapsed entry writes it back and reports a miss.
C33_HotReadsAsStored ==
  /\ ~NewConfig.hot
  /\ (ret.op = "Read" /\ config.hot) =>
       /\ Len(calls) = 1 /\ calls[1].method = "Read"
       /\ drivers = before
       /\ ReadFound => (ret.ok /\ ret.e = Was)
  /\ (ReadFound /\ ~config.hot /\ ~Was.expired /\ ~Was.expiresNever
        /\ Was.expires < ret.at) =>
       /\ ~ret.ok
       /\ Len(calls) = 2 /\ calls[2].method = "Write"

\* A hot Read after the expiry of an entry that is not flagged expired has returned
\* it as a hit.
C33_Witness ==
  /\ ReadFound /\ config.hot /\ ~Was.expired /\ ~Was.expiresNever
  /\ Was.expires < ret.at /\ ret.ok /\ ~ret.e.expired

\* ------------------------------------------------- the size of an entry
\* The longest content, in bytes.
MaxContent == 2

\* The contents of the entries that are written, and the values of their Size field.
SizeContents == {c \in {"", "a", "v1", "abc", "abcd"} : Len(c) <= MaxContent}
Sizes == 0..MaxContent

\* The entries a driver may hold before the frontend is used, written to it by
\* other means: the Size field is any value.
SizeEntries ==
  {[WithMeta("k1", c, NewEntry(0, 1)) EXCEPT !.size = n] : c \in SizeContents, n \in Sizes}

\* databank.New(d, c) on a driver that holds nothing or such an entry, with a
\* configured lifetime of 1.
SizeInit ==
  /\ ChainQuiet /\ EntryQuiet /\ IdQuiet
  /\ drivers \in {<<[id \in Ids |-> IF id = "k1" THEN e ELSE NilEntry]>> :
                     e \in SizeEntries \cup {NilEntry}}
  /\ perIteration = TRUE
  /\ before = drivers
  /\ calls = <<>>
  /\ ret = Idle
  /\ config \in [hot : BOOLEAN, lifetime : {1}]

\* databank.Write(e) of an entry made by d.NewEntry(key) whose Content and Size the
\* caller has set.
DbWrite ==
  /\ \E id \in FrontIds, content \in SizeContents, n \in Sizes, plan \in OnWrite :
       LET e == [WithMeta(id, content, NewEntry(now, config.lifetime)) EXCEPT !.size = n]
           r == databankWrite(Start, e, plan)
       IN /\ drivers' = r.st.drv
          /\ calls' = r.st.log
          /\ ret' = [op |-> "Write", id |-> id, given |-> e, e |-> r.e, ok |-> r.ok,
                     at |-> now]
  /\ before' = drivers
  /\ UNCHANGED <<perIteration, chainVars, entryVars, idVars, frontVars>>

\* Time passes until an entry written at the start is past its expiry.
SizeTick == now <= config.lifetime /\ Tick

SizeNext == DbWrite \/ DbRead \/ SizeTick

SizeSpec == SizeInit /\ [][SizeNext]_vars

\* ------------------------------------------ claims on the size of an entry
\* C28: when a frontend Write(e) returns, e.size is the byte length of e.content
\* whatever it was before, and the entry the driver was handed, which it holds when
\* its Write succeeded, carries that size; the same holds of the entry a Read writes
\* back when it expires it.
C28_SizeOnWrite ==
  /\ ret.op = "Write" =>
       /\ ret.e = [ret.given EXCEPT !.size = Len(ret.given.content)]
       /\ Succeeded(calls[1]) => drivers[1][ret.id] = ret.e
  /\ (ret.op = "Read" /\ Len(calls) = 2 /\ (ret.shares \/ Succeeded(calls[2]))) =>
       /\ drivers[1][ret.id] = [Expire(Was) EXCEPT !.size = Len(Was.content)]

\* A Write of an entry whose Size was not the length of its one-byte content has
\* succeeded: the driver holds it with Size 1.
C28_Witness ==
  /\ ret.op = "Write" /\ ret.ok /\ Succeeded(calls[1])
  /\ Len(ret.given.content) = 1 /\ ret.given.size # 1
  /\ drivers[1][ret.id].size = 1

\* A Read has expired an entry whose Size was not the length of its content, and its
\* write-back has stored it in a driver that hands out copies, with the Size set.
C28_WitnessLazy ==
  /\ ret.op = "Read" /\ ~ret.ok /\ ~ret.shares /\ Len(calls) = 2 /\ Succeeded(calls[2])
  /\ Was.size # Len(Was.content)
  /\ drivers[1][ret.id].size = Len(Was.content)

\* ------------------------------------------------------- SyncDriver.Expire
\* The entries the drivers hold when Expire is called: they never expire on their
\* own, and are flagged expired or not.
ExpireEntries ==
  {WithMeta("k1", "v1", [created |-> 0, expires |-> 0, expiresNever |-> TRUE, expired |-> x]) :
     x \in BOOLEAN}
ExpireStores ==
  {[id \in Ids |-> IF id = "k1" THEN e ELSE NilEntry] : e \in ExpireEntries \cup {NilEntry}}

\* The ways the drivers may misbehave during one Expire.
ExpirePlans ==
  [n \in 0..MaxTiers |->
     PlansUpTo(MaxFaults, n, {<<"Read", "err">>, <<"Write", "notok">>, <<"Write", "err">>})]

\* The drivers that keep the pointer they are given: in-memory drivers stand in front
\* of the drivers that keep a copy, as SyncDriver orders them.
Sharing(n) == {[t \in 1..n |-> t <= k] : k \in 0..n}

\* e.Expire() on the entry Read returned: the driver that was hit and the drivers
\* Read wrote it back into hold the same entry when they keep the pointer they are
\* given (atomic.Driver), and a copy of it otherwise (disk.Driver).
RECURSIVE ExpireThrough(_, _, _, _, _)
ExpireThrough(st, t, id, e, shares) ==
  IF t < 1 THEN st
  ELSE ExpireThrough(Through(st, t, id, Expire(e), shares[t] /\ st.drv[t][id] = e),
                     t - 1, id, e, shares)

\* An Expire for which an ID that is not found has not been expired.
SyncExpireMissFails(st, id, plan, perIter, shares) ==
  LET r == SyncRead(st, id, plan, perIter) IN
  IF r.err # NoErr THEN [st |-> r.st, ok |-> FALSE, err |-> r.err]
  ELSE IF r.ok
  THEN SyncWrite(ExpireThrough(r.st, readLoop(st, 1, id, <<>>, plan).driver, id, r.e, shares),
                 Expire(r.e), plan, perIter)
  ELSE [st |-> r.st, ok |-> FALSE, err |-> NoErr]

\* An Expire that removes the entry it finds.
SyncExpireRemoves(st, id, plan, perIter, shares) ==
  LET r == SyncRead(st, id, plan, perIter) IN
  IF r.err # NoErr THEN [st |-> r.st, ok |-> FALSE, err |-> r.err]
  ELSE IF r.ok THEN SyncDelete(r.st, id, plan)
  ELSE [st |-> r.st, ok |-> TRUE, err |-> NoErr]

\* SyncDriver.Expire(id): Read, then Write the entry with its flag set.
SyncExpire(st, id, plan, perIter, shares) ==
  LET r == SyncRead(st, id, plan, perIter) IN
  IF r.err # NoErr THEN [st |-> r.st, ok |-> FALSE, err |-> r.err]
  ELSE IF r.ok
  THEN SyncWrite(ExpireThrough(r.st, readLoop(st, 1, id, <<>>, plan).driver, id, r.e, shares),
                 Expire(r.e), plan, perIter)
  ELSE [st |-> r.st, ok |-> TRUE, err |-> NoErr]

ExpireInit ==
  /\ ChainQuiet /\ EntryQuiet /\ IdQuiet /\ FrontQuiet
  /\ drivers \in UNION {[1..n -> ExpireStores] : n \in 0..MaxTiers}
  /\ perIteration \in BOOLEAN
  /\ before = drivers
  /\ calls = <<>>
  /\ ret = Idle

CallSyncExpire ==
  /\ ret = Idle
  /\ \E plan \in ExpirePlans[Len(drivers)], shares \in Sharing(Len(drivers)) :
       \E r \in {SyncExpire(Start, "k1", plan, perIteration, shares)} :
       /\ drivers' = r.st.drv
       /\ calls' = r.st.log
       /\ ret' = [op |-> "Expire", id |-> "k1", ok |-> r.ok, err |-> r.err,
                  shares |-> shares]
  /\ before' = drivers
  /\ UNCHANGED <<perIteration, chainVars, entryVars, idVars, frontVars>>

ExpireNext == CallSyncExpire \/ Return

ExpireSpec == ExpireInit /\ [][ExpireNext]_vars

\* ------------------------------------------- claims on SyncDriver.Expire
\* No driver call of the operation returned an error or ok=false from a Write.
NoCallFailed ==
  \A k \in 1..Len(calls) :
    calls[k].err = NoErr /\ (calls[k].method = "Write" => calls[k].ok)
HeldByNone == \A t \in 1..NumTiers : before[t][ret.id] = NilEntry
ExpiredInAll ==
  /\ NumTiers >= 1
  /\ \A t \in 1..NumTiers :
       /\ before[t][ret.id] # NilEntry /\ before[t][ret.id].expired
       /\ before[t][ret.id] = before[1][ret.id]

\* C20: Expire(id) for an ID no driver holds writes to no driver and, when no
\* driver call fails, returns (true, nil); Expire(id) for an entry every driver
\* already holds expired leaves every driver as it was and, when no driver call
\* fails, returns (true, nil); after an Expire that returned (true, nil) every
\* driver holds the entry expired or does not hold it.
C20_ExpireIdempotent ==
  ret.op = "Expire" =>
    /\ HeldByNone =>
         /\ \A k \in 1..Len(calls) : calls[k].method = "Read"
         /\ drivers = before
         /\ NoCallFailed => (ret.ok /\ ret.err = NoErr)
    /\ ExpiredInAll =>
         /\ drivers = before
         /\ NoCallFailed => (ret.ok /\ ret.err = NoErr)
    /\ (ret.ok /\ ret.err = NoErr) =>
         \A t \in 1..NumTiers :
           drivers[t][ret.id] = NilEntry \/ drivers[t][ret.id].expired

\* Expire has returned true for an entry three drivers already held expired: it
\* wrote the entry to each of them again.
C20_Witness ==
  /\ ret.op = "Expire" /\ NumTiers = 3 /\ ExpiredInAll /\ NoCallFailed /\ ret.ok
  /\ \A t \in 1..3 : \E k \in 1..Len(calls) : calls[k].method = "Write" /\ calls[k].tier = t

\* Expire has returned true for an ID none of three drivers holds.
C20_WitnessAbsent ==
  /\ ret.op = "Expire" /\ NumTiers = 3 /\ HeldByNone /\ NoCallFailed /\ ret.ok
  /\ Len(calls) = 3

\* Expire has returned true for an entry that was not expired: it is now.
C20_WitnessExpired ==
  /\ ret.op = "Expire" /\ NumTiers = 2 /\ ret.ok /\ ret.err = NoErr
  /\ before[1][ret.id] = NilEntry
  /\ before[2][ret.id] # NilEntry /\ ~before[2][ret.id].expired
  /\ drivers[1][ret.id] # NilEntry /\ drivers[1][ret.id].expired

\* The first driver, front to back, that held the ID when Expire was called held it
\* not expired.
FoundUnexpired ==
  \E h \in 1..NumTiers :
    /\ \A t \in 1..(h - 1) : before[t][ret.id] = NilEntry
    /\ before[h][ret.id] # NilEntry /\ ~before[h][ret.id].expired
\* Driver j is the first driver whose Write returned an error, and no Read did.
WriteErrorAt(j) ==
  /\ \E k \in 1..Len(calls) :
       calls[k].method = "Write" /\ calls[k].tier = j /\ calls[k].err # NoErr
  /\ \A k \in 1..Len(calls) :
       calls[k].err # NoErr => (calls[k].method = "Write" /\ calls[k].tier >= j)
\* No call on driver t reported ok=false from a Write.
Writable(t) ==
  \A k \in 1..Len(calls) : (calls[k].tier = t /\ calls[k].method = "Write") => calls[k].ok

\* C38: when Expire(id) finds the entry not expired and driver j's write returns an
\* error, Expire returns ok=false with that error, and every driver in front of
\* driver j (that reported no write as not done) holds the entry not expired.
C38_FailedExpireRolledBack ==
  \A j \in 1..MaxTiers :
    (ret.op = "Expire" /\ FoundUnexpired /\ WriteErrorAt(j)) =>
      /\ ~ret.ok /\ ret.err = Err(j, "Write")
      /\ \A t \in 1..(j - 1) :
           Writable(t) => (drivers[t][ret.id] # NilEntry /\ ~drivers[t][ret.id].expired)

\* --------------------------------------- the frontend on a SyncDriver
\* The largest number of drivers of the SyncDriver behind a frontend.
MaxLifeTiers == 2

\* The entries the drivers hold at time 1: past their expiry (expires 0) or not
\* (expires 2), flagged expired or not.
LifeEntries ==
  {WithMeta("k1", "v1", [created |-> 0, expires |-> x, expiresNever |-> FALSE, expired |-> f]) :
     x \in {0, 2}, f \in BOOLEAN}
LifeStores ==
  {[id \in Ids |-> IF id = "k1" THEN e ELSE NilEntry] : e \in LifeEntries \cup {NilEntry}}


\* The value of an expression that is worked out once: the element of {x}.
The(S) == CHOOSE x \in S : TRUE

\* databank.Read(id) at time t after d.driver.Read(id) returned r, the SyncDriver's
\* Read having hit on driver number hit: MaybeExpire acts on the entry Read
\* returned, and Write is CalculateSize and SyncDriver.Write.
syncedReturn(r, hit, id, plan, perIter, shares, hot, t) ==
  IF r.ok /\ ~hot /\ MaybeExpire(r.e, t).se
  THEN The({[st |-> w.st, e |-> NilEntry, ok |-> FALSE] :
              w \in {SyncWrite(x, e, plan, perIter) :
                       x \in {ExpireThrough(r.st, hit, id, r.e, shares)},
                       e \in {CalculateSize(MaybeExpire(r.e, t).e)}}})
  ELSE [st |-> r.st, e |-> r.e, ok |-> r.ok]

\* databank.Read(id) at time t on a SyncDriver.
syncedRead(st, id, plan, perIter, shares, hot, t) ==
  The({syncedReturn(r, hit, id, plan, perIter, shares, hot, t) :
         r \in {SyncRead(st, id, plan, perIter)},
         hit \in {readLoop(st, 1, id, <<>>, plan).driver}})

LifeInit ==
  /\ ChainQuiet /\ IdQuiet /\ FrontQuiet
  /\ now = 1 /\ entry = NoCall /\ last = NoCall
  /\ drivers \in UNION {[1..n -> LifeStores] : n \in 0..MaxLifeTiers}
  /\ perIteration \in BOOLEAN
  /\ before = drivers
  /\ calls = <<>>
  /\ ret = Idle

\* databank.Read(id) on a frontend whose driver is the SyncDriver.
SyncedRead ==
  /\ ret = Idle
  /\ \E plan \in ExpirePlans[Len(drivers)], shares \in Sharing(Len(drivers)) :
       \E r \in {syncedRead(Start, "k1", plan, perIteration, shares, config.hot, now)} :
       /\ drivers' = r.st.drv
       /\ calls' = r.st.log
       /\ ret' = [op |-> "Read", id |-> "k1", e |-> r.e, ok |-> r.ok]
  /\ before' = drivers
  /\ UNCHANGED <<perIteration, chainVars, entryVars, idVars, frontVars>>

LifeNext == CallSyncExpire \/ SyncedRead \/ Return

LifeSpec == LifeInit /\ [][LifeNext]_vars

\* ------------------------------- claims on the frontend on a SyncDriver
\* C21: Expire and the lazy expiration of Read remove nothing: every driver that
\* held the ID holds it afterwards, whatever the drivers answered; and after an
\* Expire that returned (true, nil) for an ID some driver held, Has(id) is true
\* and every driver holds the entry with expired=true.
C21_ExpirationKeepsEntries ==
  ret.op \in {"Expire", "Read"} =>
    /\ \A t \in 1..NumTiers : \A id \in Ids :
         before[t][id] # NilEntry => drivers[t][id] # NilEntry
    /\ \A k \in 1..Len(calls) : calls[k].method \in {"Read", "Write"}
    /\ (ret.op = "Expire" /\ ret.ok /\ ret.err = NoErr /\ ~HeldByNone) =>
         /\ SyncHas([drv |-> drivers, log |-> <<>>], ret.id, {}).ok
         /\ \A t \in 1..NumTiers :
              drivers[t][ret.id] # NilEntry /\ drivers[t][ret.id].expired

\* Expire has returned true for an entry only the back one of two drivers held,
\* not expired: both hold it now, expired.
C21_Witness ==
  /\ ret.op = "Expire" /\ ret.ok /\ ret.err = NoErr /\ NumTiers = 2
  /\ before[1]["k1"] = NilEntry
  /\ before[2]["k1"] # NilEntry /\ ~before[2]["k1"].expired
  /\ drivers[1]["k1"] = Expire(before[2]["k1"]) /\ drivers[2]["k1"] = drivers[1]["k1"]

\* A Read has expired an entry past its expiry and reported a miss; both drivers
\* hold the entry.
C21_WitnessLazy ==
  /\ ret.op = "Read" /\ ~ret.ok /\ NumTiers = 2
  /\ before[1]["k1"] # NilEntry /\ ~before[1]["k1"].expired
  /\ drivers[1]["k1"] = Expire(before[1]["k1"]) /\ drivers[2]["k1"] = drivers[1]["k1"]

\* ------------------------------------------------------ SyncDriver.Cleanup
\* The entries the drivers hold when Cleanup is called: flagged expired or not.
CleanEntries(id) ==
  {WithMeta(id, "v1", [created |-> 0, expires |-> 0, expiresNever |-> TRUE, expired |-> f]) :
     f \in BOOLEAN}
CleanStores == {s \in [Ids -> UNION {CleanEntries(id) : id \in Ids} \cup {NilEntry}] : WellStored(s)}

\* The largest number of driver methods that misbehave during one Cleanup, Review
\* or Restore.
MaxSweepFaults == 1

\* The ways the drivers may misbehave during one Cleanup.
CleanupPlans ==
  [n \in 0..MaxLifeTiers |->
     PlansUpTo(MaxSweepFaults, n, {<<"Scan", "notok">>, <<"Scan", "err">>, <<"Read", "err">>,
                                   <<"Delete", "notok">>, <<"Delete", "okerr">>})]

\* The orders in which a driver's Scan may list its IDs.
Orders == {<<"k1", "k2">>, <<"k2", "k1">>}
Listed(ids, order) == SelectSeq(order, LAMBDA id : id \in ids)

\* One result of a loop body, and the results of a body and of the rest of the loop.
Outcome(st, n, ok, errors) == [st |-> st, n |-> n, ok |-> ok, errors |-> errors]
Both(a, rest) == Outcome(rest.st, a.n + rest.n, a.ok /\ rest.ok, a.errors \o rest.errors)

\* A call the body of a sweep's loop makes on a driver's Read or on the SyncDriver's
\* own Delete or Write has returned: it is recorded, as a call on tier 0, after the
\* driver calls it made.
Step(st, m, id, ok, err) ==
  [drv |-> st.drv, log |-> Append(st.log, Call(0, m, id, ok, err))]
noted(r, m, id) == [r EXCEPT !.st = Step(r.st, m, id, r.ok, r.err)]

\* The operation op has returned r.
Swept(op, r) ==
  /\ drivers' = r.st.drv
  /\ calls' = r.st.log
  /\ ret' = [op |-> op, n |-> r.n, ok |-> r.ok, errors |-> r.errors]

\* A Cleanup that deletes every entry it reads.
RECURSIVE cleanupIdsAll(_, _, _, _, _)
cleanupIdsAll(st, t, ids, k, plan) ==
  IF k > Len(ids) THEN Outcome(st, 0, TRUE, <<>>)
  ELSE LET r == noted(driverRead(st, t, ids[k], plan), "Read", ids[k])
           d == noted(SyncDelete(r.st, ids[k], plan), "Delete", ids[k])
           a == IF r.err # NoErr THEN Outcome(r.st, 0, FALSE, <<r.err>>)
                ELSE IF ~r.ok THEN Outcome(r.st, 0, TRUE, <<>>)
                ELSE IF d.err # NoErr THEN Outcome(d.st, 0, FALSE, <<d.err>>)
                ELSE IF ~d.ok THEN Outcome(d.st, 0, FALSE, <<>>)
                ELSE Outcome(d.st, 1, TRUE, <<>>)
       IN Both(a, cleanupIdsAll(a.st, t, ids, k + 1, plan))

\* A Cleanup that deletes an expired entry from the driver that listed it alone.
RECURSIVE cleanupIdsLocal(_, _, _, _, _)
cleanupIdsLocal(st, t, ids, k, plan) ==
  IF k > Len(ids) THEN Outcome(st, 0, TRUE, <<>>)
  ELSE LET r == noted(driverRead(st, t, ids[k], plan), "Read", ids[k])
           d == noted(driverDelete(r.st, t, ids[k], plan), "Delete", ids[k])
           a == IF r.err # NoErr THEN Outcome(r.st, 0, FALSE, <<r.err>>)
                ELSE IF ~r.ok THEN Outcome(r.st, 0, TRUE, <<>>)
                ELSE IF ~r.e.expired THEN Outcome(r.st, 0, TRUE, <<>>)
                ELSE IF d.err # NoErr THEN Outcome(d.st, 0, FALSE, <<d.err>>)
                ELSE IF ~d.ok THEN Outcome(d.st, 0, FALSE, <<>>)
                ELSE Outcome(d.st, 1, TRUE, <<>>)
       IN Both(a, cleanupIdsLocal(a.st, t, ids, k + 1, plan))

\* The inner loop of SyncDriver.Cleanup over the IDs driver t listed, from the k-th.
RECURSIVE cleanupIds(_, _, _, _, _)
cleanupIds(st, t, ids, k, plan) ==
  IF k > Len(ids) THEN Outcome(st, 0, TRUE, <<>>)
  ELSE LET r == noted(driverRead(st, t, ids[k], plan), "Read", ids[k])
           d == noted(SyncDelete(r.st, ids[k], plan), "Delete", ids[k])
           a == IF r.err # NoErr THEN Outcome(r.st, 0, FALSE, <<r.err>>)
                ELSE IF ~r.ok THEN Outcome(r.st, 0, TRUE, <<>>)
                ELSE IF ~r.e.expired THEN Outcome(r.st, 0, TRUE, <<>>)
                ELSE IF d.err # NoErr THEN Outcome(d.st, 0, FALSE, <<d.err>>)
                ELSE IF ~d.ok THEN Outcome(d.st, 0, FALSE, <<>>)
                ELSE Outcome(d.st, 1, TRUE, <<>>)
       IN Both(a, cleanupIds(a.st, t, ids, k + 1, plan))

\* A Cleanup that gives up at the first driver whose Scan fails.
RECURSIVE cleanupLoopFailFast(_, _, _, _)
cleanupLoopFailFast(st, i, order, plan) ==
  IF i > Len(st.drv) THEN Outcome(st, 0, TRUE, <<>>)
  ELSE LET t == Len(st.drv) - i + 1
           c == driverScan(st, t, plan)
       IN IF c.err # NoErr THEN Outcome(c.st, 0, FALSE, <<c.err>>)
          ELSE IF ~c.ok THEN Outcome(c.st, 0, FALSE, <<>>)
          ELSE Both(cleanupIds(c.st, t, Listed(c.ids, order), 1, plan),
                    cleanupLoopFailFast(cleanupIds(c.st, t, Listed(c.ids, order), 1, plan).st,
                                        i + 1, order, plan))

\* The outer loop of SyncDriver.Cleanup, from its i-th iteration: back to front.
RECURSIVE cleanupLoop(_, _, _, _)
cleanupLoop(st, i, order, plan) ==
  IF i > Len(st.drv) THEN Outcome(st, 0, TRUE, <<>>)
  ELSE LET t == Len(st.drv) - i + 1
           c == driverScan(st, t, plan)
           a == IF c.err # NoErr THEN Outcome(c.st, 0, FALSE, <<c.err>>)
                ELSE IF ~c.ok THEN Outcome(c.st, 0, FALSE, <<>>)
                ELSE cleanupIds(c.st, t, Listed(c.ids, order), 1, plan)
       IN Both(a, cleanupLoop(a.st, i + 1, order, plan))

\* SyncDriver.Cleanup().
SyncCleanup(st, order, plan) == cleanupLoop(st, 1, order, plan)

CleanupInit ==
  /\ ChainQuiet /\ EntryQuiet /\ IdQuiet /\ FrontQuiet
  /\ drivers \in UNION {[1..n -> CleanStores] : n \in 0..MaxLifeTiers}
  /\ perIteration = TRUE
  /\ before = drivers
  /\ calls = <<>>
  /\ ret = Idle

Cleanup ==
  /\ ret = Idle
  /\ \E plan \in CleanupPlans[Len(drivers)], order \in Orders :
       LET r == SyncCleanup(Start, order, plan) IN
       /\ drivers' = r.st.drv
       /\ calls' = r.st.log
       /\ ret' = [op |-> "Cleanup", deleted |-> r.n, ok |-> r.ok, errors |-> r.errors]
  /\ before' = drivers
  /\ UNCHANGED <<perIteration, chainVars, entryVars, idVars, frontVars>>

CleanupNext == Cleanup \/ Return

CleanupSpec == CleanupInit /\ [][CleanupNext]_vars

\* ------------------------------------------- claims on SyncDriver.Cleanup
ExpiredSomewhere(id) ==
  \E t \in 1..NumTiers : before[t][id] # NilEntry /\ before[t][id].expired

\* C22: after Cleanup returns ok=true with no errors, no driver holds an entry
\* flagged expired; and an ID whose entry no driver held flagged expired is held,
\* unchanged, by every driver that held it, whatever Cleanup returns.
C22_CleanupDeletesExpired ==
  ret.op = "Cleanup" =>
    /\ (ret.ok /\ ret.errors = <<>>) =>
         \A t \in 1..NumTiers : \A id \in Ids :
           drivers[t][id] = NilEntry \/ ~drivers[t][id].expired
    /\ \A id \in Ids :
         ~ExpiredSomewhere(id) => \A t \in 1..NumTiers : drivers[t][id] = before[t][id]

\* Cleanup has returned ok=true with no errors on two drivers: k1, flagged expired
\* in the back driver only, is gone from both; k2, not expired, is where it was.
C22_Witness ==
  /\ ret.op = "Cleanup" /\ ret.ok /\ ret.errors = <<>> /\ NumTiers = 2
  /\ before[1]["k1"] # NilEntry /\ ~before[1]["k1"].expired
  /\ before[2]["k1"] # NilEntry /\ before[2]["k1"].expired
  /\ before[1]["k2"] # NilEntry /\ ~ExpiredSomewhere("k2")
  /\ drivers[1]["k1"] = NilEntry /\ drivers[2]["k1"] = NilEntry
  /\ drivers[1]["k2"] = before[1]["k2"]
  /\ ret.deleted = 1

\* No driver call of the sweep returned an error, and no Scan, Delete or Write
\* reported ok=false.
SweepFailureFree ==
  \A k \in 1..Len(calls) :
    calls[k].err = NoErr /\ (calls[k].method # "Read" => calls[k].ok)

\* C40: when no driver call fails, the count Cleanup returns is the number of
\* distinct IDs that some driver held flagged expired when it was called.
C40_CleanupCountsDistinct ==
  (ret.op = "Cleanup" /\ SweepFailureFree) =>
    ret.deleted = Cardinality({id \in Ids : ExpiredSomewhere(id)})

\* Cleanup has returned 2 on two drivers without a failure: both held k1 flagged
\* expired, and k2 was flagged expired in the front driver and not in the back one.
C40_Witness ==
  /\ ret.op = "Cleanup" /\ SweepFailureFree /\ NumTiers = 2 /\ ret.deleted = 2
  /\ \A t \in 1..2 : before[t]["k1"] # NilEntry /\ before[t]["k1"].expired
  /\ before[1]["k2"] # NilEntry /\ before[1]["k2"].expired
  /\ before[2]["k2"] # NilEntry /\ ~before[2]["k2"].expired

\* ------------------------------------------------------- SyncDriver.Review
\* The entries the drivers hold when Review is called at time 1: k1 past its expiry
\* (expires 0) or not (expires 2), flagged expired or not; k2 past its expiry.
ReviewEntries ==
  {WithMeta("k1", "v1", [created |-> 0, expires |-> 2, expiresNever |-> FALSE, expired |-> FALSE]),
   WithMeta("k1", "v1", [created |-> 0, expires |-> 0, expiresNever |-> FALSE, expired |-> FALSE]),
   WithMeta("k1", "v1", [created |-> 0, expires |-> 0, expiresNever |-> FALSE, expired |-> TRUE]),
   WithMeta("k2", "v1", [created |-> 0, expires |-> 0, expiresNever |-> FALSE, expired |-> FALSE])}
ReviewStores == {s \in [Ids -> ReviewEntries \cup {NilEntry}] : WellStored(s)}

\* The ways the drivers may misbehave during one Review.
ReviewPlans ==
  [n \in 0..MaxLifeTiers |->
     PlansUpTo(MaxSweepFaults, n, {<<"Scan", "notok">>, <<"Scan", "err">>, <<"Read", "err">>,
                                   <<"Write", "notok">>, <<"Write", "err">>})]

\* What one entry of Review's inner loop gives, r being what driver t's Read gave
\* and w what the Write of the expired entry gave.
reviewed(r, w, se) ==
  IF r.err # NoErr THEN Outcome(r.st, 0, FALSE, <<r.err>>)
  ELSE IF ~r.ok THEN Outcome(r.st, 0, TRUE, <<>>)
  ELSE IF ~se THEN Outcome(r.st, 0, TRUE, <<>>)
  ELSE IF w.err # NoErr THEN Outcome(w.st, 0, FALSE, <<w.err>>)
  ELSE IF ~w.ok THEN Outcome(w.st, 0, FALSE, <<>>)
  ELSE Outcome(w.st, 1, TRUE, <<>>)

\* A Review that writes an expired entry to the driver it was read from only.
reviewEntryLocal(r, t, plan, perIter, shares, at) ==
  IF r.ok /\ MaybeExpire(r.e, at).se
  THEN reviewed(r, noted(driverWrite(Through(r.st, t, r.e.id, MaybeExpire(r.e, at).e, shares),
                                     t, MaybeExpire(r.e, at).e, plan), "Write", r.e.id),
                TRUE)
  ELSE reviewed(r, r, FALSE)

\* The body of Review's inner loop once driver t's Read has given r: e.MaybeExpire()
\* acts on the entry driver t returned, and Write is SyncDriver.Write.
reviewEntry(r, t, plan, perIter, shares, at) ==
  IF r.ok /\ MaybeExpire(r.e, at).se
  THEN reviewed(r, noted(SyncWrite(Through(r.st, t, r.e.id, MaybeExpire(r.e, at).e, shares),
                                   MaybeExpire(r.e, at).e, plan, perIter), "Write", r.e.id),
                TRUE)
  ELSE reviewed(r, r, FALSE)

\* The inner loop of SyncDriver.Review over the IDs driver t listed, from the k-th,
\* a being what the entries before gave.
RECURSIVE reviewIds(_, _, _, _, _, _, _, _)
reviewIds(a, t, ids, k, plan, perIter, shares, at) ==
  IF k > Len(ids) THEN a
  ELSE reviewIds(Both(a, reviewEntry(noted(driverRead(a.st, t, ids[k], plan), "Read", ids[k]),
                                     t, plan, perIter, shares, at)),
                 t, ids, k + 1, plan, perIter, shares, at)

\* What one driver of Review's outer loop gives, c being what its Scan gave.
reviewDriver(c, t, order, plan, perIter, shares, at) ==
  IF c.err # NoErr THEN Outcome(c.st, 0, FALSE, <<c.err>>)
  ELSE IF ~c.ok THEN Outcome(c.st, 0, FALSE, <<>>)
  ELSE reviewIds(Outcome(c.st, 0, TRUE, <<>>), t, Listed(c.ids, order), 1, plan, perIter,
                 shares, at)

\* The outer loop of SyncDriver.Review, from its i-th iteration: back to front, a
\* being what the drivers before gave.
RECURSIVE reviewLoop(_, _, _, _, _, _, _)
reviewLoop(a, i, order, plan, perIter, shares, at) ==
  IF i > Len(a.st.drv) THEN a
  ELSE reviewLoop(Both(a, reviewDriver(driverScan(a.st, Len(a.st.drv) - i + 1, plan),
                                       Len(a.st.drv) - i + 1, order, plan, perIter,
                                       shares, at)),
                  i + 1, order, plan, perIter, shares, at)

\* SyncDriver.Review() at time at.
SyncReview(st, order, plan, perIter, shares, at) ==
  reviewLoop(Outcome(st, 0, TRUE, <<>>), 1, order, plan, perIter, shares, at)

ReviewInit ==
  /\ ChainQuiet /\ IdQuiet /\ FrontQuiet
  /\ now = 1 /\ entry = NoCall /\ last = NoCall
  /\ drivers \in UNION {[1..n -> ReviewStores] : n \in 0..MaxLifeTiers}
  /\ perIteration \in BOOLEAN
  /\ before = drivers
  /\ calls = <<>>
  /\ ret = Idle

Review ==
  /\ ret = Idle
  /\ \E plan \in ReviewPlans[Len(drivers)], order \in Orders, shares \in BOOLEAN :
       Swept("Review", SyncReview(Start, order, plan, perIteration, shares, now))
  /\ before' = drivers
  /\ UNCHANGED <<perIteration, chainVars, entryVars, idVars, frontVars>>

\* One Review of drivers holding anything they may hold.
ReviewNext == Review

ReviewSpec == ReviewInit /\ [][ReviewNext]_vars

\* -------------------------------------------- claims on SyncDriver.Review
\* The IDs whose entry in some driver was past its expiry when Review was called.
Lapsed ==
  {id \in Ids : \E t \in 1..NumTiers :
     before[t][id] # NilEntry /\ ShouldExpire(before[t][id], now)}

\* C23: Review removes no ID from any driver; after Review returns ok=true with no
\* errors, every ID whose entry in some driver was due to expire is held with
\* expired=true by every driver, the count returned is the number of these IDs,
\* and the entries of every other ID are as they were.
C23_ReviewExpiresLapsed ==
  ret.op = "Review" =>
    /\ \A t \in 1..NumTiers : \A id \in Ids :
         before[t][id] # NilEntry => drivers[t][id] # NilEntry
    /\ (ret.ok /\ ret.errors = <<>>) =>
         /\ \A id \in Lapsed : \A t \in 1..NumTiers :
              drivers[t][id] # NilEntry /\ drivers[t][id].expired
         /\ ret.n = Cardinality(Lapsed)
         /\ \A id \in Ids \ Lapsed : \A t \in 1..NumTiers :
              drivers[t][id] = before[t][id]

\* Review has returned ok=true with no errors on two drivers: k1 was due in both
\* and k2 in the front driver only; both drivers hold both expired, and 2 is returned.
C23_Witness ==
  /\ ret.op = "Review" /\ ret.ok /\ ret.errors = <<>> /\ NumTiers = 2
  /\ Lapsed = {"k1", "k2"}
  /\ before[2]["k1"] # NilEntry /\ ShouldExpire(before[2]["k1"], now)
  /\ before[1]["k1"] = before[2]["k1"]
  /\ before[2]["k2"] = NilEntry
  /\ \A t \in 1..2 : \A id \in Ids : drivers[t][id].expired
  /\ ret.n = 2

\* ------------------------------------------ Cleanup and Review under faults
\* The entries the drivers hold when a sweep is called at time 1: past their expiry,
\* flagged expired or not for k1, flagged expired for k2.
SweepEntries ==
  {WithMeta(id, "v1", [created |-> 0, expires |-> 0, expiresNever |-> FALSE, expired |-> f]) :
     id \in Ids, f \in BOOLEAN}
SweepStores ==
  {s \in [Ids -> SweepEntries \cup {NilEntry}] :
     WellStored(s) /\ (s["k2"] # NilEntry => s["k2"].expired)}

\* The ways the drivers may misbehave during one sweep: Cleanup deletes and never
\* writes, Review writes and never deletes.
SweepPlans(methods) ==
  [n \in 0..MaxLifeTiers |->
     {plan \in PlansUpTo(MaxSweepFaults, n,
                         {<<"Scan", "notok">>, <<"Scan", "err">>, <<"Read", "err">>,
                          <<"Read", "miss">>, <<"Delete", "notok">>, <<"Delete", "err">>,
                          <<"Delete", "okerr">>, <<"Write", "notok">>, <<"Write", "err">>}) :
        \A a \in plan : a.method \in methods}]
CleanupFaults == SweepPlans({"Scan", "Read", "Delete"})
ReviewFaults == SweepPlans({"Scan", "Read", "Write"})

SweepInit ==
  /\ ChainQuiet /\ IdQuiet /\ FrontQuiet
  /\ now = 1 /\ entry = NoCall /\ last = NoCall
  /\ drivers \in UNION {[1..n -> SweepStores] : n \in 0..MaxLifeTiers}
  /\ perIteration = TRUE
  /\ before = drivers
  /\ calls = <<>>
  /\ ret = Idle

SweepCleanup ==
  /\ ret = Idle
  /\ \E plan \in CleanupFaults[Len(drivers)], order \in Orders :
       Swept("Cleanup", SyncCleanup(Start, order, plan))
  /\ before' = drivers
  /\ UNCHANGED <<perIteration, chainVars, entryVars, idVars, frontVars>>

SweepReview ==
  /\ ret = Idle
  /\ \E plan \in ReviewFaults[Len(drivers)], order \in Orders, shares \in BOOLEAN :
       Swept("Review", SyncReview(Start, order, plan, perIteration, shares, now))
  /\ before' = drivers
  /\ UNCHANGED <<perIteration, chainVars, entryVars, idVars, frontVars>>

\* One Cleanup or one Review of drivers holding anything they may hold.
SweepNext == SweepCleanup \/ SweepReview

SweepSpec == SweepInit /\ [][SweepNext]_vars

\* --------------------------------- claims on Cleanup and Review under faults
\* The calls the loops of the sweep made themselves, in order: each driver's Scan,
\* and per ID the driver's Read and the SyncDriver's Delete or Write.
OwnCalls == SelectSeq(calls, LAMBDA c : c.method = "Scan" \/ c.tier = 0)
ScanCalls == SelectSeq(calls, LAMBDA c : c.method = "Scan")
ErrorsOf(log) == [k \in 1..Len(log) |-> log[k].err]
\* Call j belongs to the iteration of the outer loop that made the Scan at k.
ScannedBy(k, j) ==
  /\ j > k /\ j <= Len(calls)
  /\ \A i \in (k + 1)..j : calls[i].method # "Scan"
\* The calls by which the loop that made the Scan at k read the ID from its driver.
OwnReads(k, id) ==
  {j \in 1..Len(calls) :
     ScannedBy(k, j) /\ calls[j].tier = 0 /\ calls[j].method = "Read" /\ calls[j].id = id}
\* Before the call at k, the ID was deleted from driver t.
DeletedBefore(k, t, id) ==
  \E j \in 1..(k - 1) :
    calls[j].tier = t /\ calls[j].method = "Delete" /\ calls[j].id = id /\ calls[j].ok

\* C39: Cleanup and Review return, in order, the errors of their drivers' Scans, of
\* the reads of single IDs and of the Delete or Write of single IDs, and ok=false
\* if and only if one of these calls returned an error or a Scan, Delete or Write
\* reported ok=false, a Read that misses leaving ok alone; whatever fails, every
\* driver is scanned once, the last first, and after a Scan that succeeded every ID
\* its driver held is read once from it, unless the sweep had deleted it before.
C39_SweepsAggregate ==
  ret.op \in {"Cleanup", "Review"} =>
    /\ ret.errors = ErrorsOf(SelectSeq(OwnCalls, LAMBDA c : c.err # NoErr))
    /\ ret.ok <=> \A k \in 1..Len(OwnCalls) :
                    /\ OwnCalls[k].err = NoErr
                    /\ OwnCalls[k].method # "Read" => OwnCalls[k].ok
    /\ Len(ScanCalls) = NumTiers
    /\ \A i \in 1..NumTiers : ScanCalls[i].tier = NumTiers - i + 1
    /\ \A k \in 1..Len(calls) :
         (calls[k].method = "Scan" /\ Succeeded(calls[k])) =>
           \A id \in Ids :
             (before[calls[k].tier][id] # NilEntry
                /\ ~DeletedBefore(k, calls[k].tier, id)) =>
               Cardinality(OwnReads(k, id)) = 1

\* A Cleanup on two drivers has returned ok=false with two errors: the Delete of
\* each of the two expired IDs the back driver held returned an error, and the
\* front driver was scanned after that.
C39_Witness ==
  /\ ret.op = "Cleanup" /\ NumTiers = 2 /\ ~ret.ok /\ Len(ret.errors) = 2
  /\ \E i, j \in 1..Len(calls) :
       /\ i < j
       /\ calls[i] = Call(0, "Delete", "k1", TRUE, ret.errors[1])
       /\ calls[j] = Call(0, "Delete", "k2", TRUE, ret.errors[2])
  /\ calls[1].tier = 2 /\ ScanCalls[2].tier = 1

\* A Review on two drivers has returned ok=true with no errors although the back
\* driver's reads missed; the front driver's entries were expired.
C39_WitnessMiss ==
  /\ ret.op = "Review" /\ NumTiers = 2 /\ ret.ok /\ ret.errors = <<>>
  /\ \E k \in 1..Len(calls) : calls[k] = Call(0, "Read", "k1", FALSE, NoErr)
  /\ ret.n >= 1

\* A Review on two drivers has returned the error of the back driver's Scan and
\* has expired an entry of the front driver.
C39_WitnessScan ==
  /\ ret.op = "Review" /\ NumTiers = 2 /\ ~ret.ok /\ ret.errors = <<Err(2, "Scan")>>
  /\ ret.n = 1 /\ drivers[1]["k1"] # NilEntry /\ drivers[1]["k1"].expired
  /\ ~before[1]["k1"].expired

\* ------------------------------------------------------ SyncDriver.Restore
\* What the drivers hold when Restore is called: k1 with either content, k2.
RestoreStores ==
  {s \in Stores : s["k2"] # NilEntry => s["k2"].content = "v1"}

\* The ways the drivers may misbehave during one Restore: the authority in Scan and
\* Read, the others in Write.
RestorePlans ==
  [n \in 0..MaxTiers |->
     {plan \in PlansUpTo(MaxSweepFaults, n,
                         {<<"Scan", "notok">>, <<"Scan", "err">>, <<"Read", "err">>,
                          <<"Write", "notok">>, <<"Write", "err">>}) :
        \A a \in plan : (a.method = "Write") <=> (a.tier < n)}]

\* A Restore that copies front to back.
RestoreOrderForward(n, i) == i

\* The driver Restore writes in iteration i >= 1 (0-based): d.drivers[len-(i+1)].
RestoreOrder(n, i) == n - i

\* What one Write of Restore gives: an error is kept, ok=false is remembered.
restored(w) == Outcome(w.st, 0, w.ok, IF w.err # NoErr THEN <<w.err>> ELSE <<>>)

\* The inner loop of SyncDriver.Restore, from iteration i: iteration 0 is skipped.
RECURSIVE restoreTiers(_, _, _, _)
restoreTiers(a, i, e, plan) ==
  IF i >= Len(a.st.drv) THEN a
  ELSE IF i = 0 THEN restoreTiers(a, 1, e, plan)
  ELSE restoreTiers(Both(a, restored(driverWrite(a.st, RestoreOrder(Len(a.st.drv), i), e,
                                                 plan))),
                    i + 1, e, plan)

\* The body of Restore's outer loop once the authority's Read has given r: a read
\* error is kept and leaves okResult as it is.
restoreEntry(r, plan) ==
  IF r.err # NoErr THEN Outcome(r.st, 0, TRUE, <<r.err>>)
  ELSE IF ~r.ok THEN Outcome(r.st, 0, FALSE, <<>>)
  ELSE restoreTiers(Outcome(r.st, 0, TRUE, <<>>), 0, r.e, plan)

\* The outer loop of SyncDriver.Restore over the IDs Scan listed, from the k-th.
RECURSIVE restoreIds(_, _, _, _)
restoreIds(a, ids, k, plan) ==
  IF k > Len(ids) THEN a
  ELSE restoreIds(Both(a, restoreEntry(driverRead(a.st, authority(a.st.drv), ids[k], plan),
                                       plan)),
                  ids, k + 1, plan)

\* What Restore gives once SyncDriver.Scan has given c.
restoreScanned(c, order, plan) ==
  IF c.panic THEN Outcome(c.st, 0, FALSE, <<>>)
  ELSE IF c.err # NoErr THEN Outcome(c.st, 0, FALSE, <<c.err>>)
  ELSE IF ~c.ok THEN Outcome(c.st, 0, FALSE, <<>>)
  ELSE restoreIds(Outcome(c.st, 0, TRUE, <<>>), Listed(c.ids, order), 1, plan)

\* SyncDriver.Restore(): it panics, as Scan does, when there is no driver.
SyncRestore(st, order, plan) == restoreScanned(SyncScan(st, plan), order, plan)

RestoreInit ==
  /\ ChainQuiet /\ EntryQuiet /\ IdQuiet /\ FrontQuiet
  /\ drivers \in UNION {[1..n -> RestoreStores] : n \in 0..MaxTiers}
  /\ perIteration = TRUE
  /\ before = drivers
  /\ calls = <<>>
  /\ ret = Idle

\* Restore has returned r, or panicked.
Restored(r) ==
  /\ drivers' = r.st.drv
  /\ calls' = r.st.log
  /\ ret' = [op |-> "Restore", ok |-> r.ok, errors |-> r.errors,
             panic |-> Len(drivers) = 0]

Restore ==
  /\ ret = Idle
  /\ \E plan \in RestorePlans[Len(drivers)], order \in Orders :
       Restored(SyncRestore(Start, order, plan))
  /\ before' = drivers
  /\ UNCHANGED <<perIteration, chainVars, entryVars, idVars, frontVars>>

RestoreNext == Restore \/ Return

RestoreSpec == RestoreInit /\ [][RestoreNext]_vars

\* ------------------------------------------- claims on SyncDriver.Restore
\* The calls Restore made after the Scan of the authority.
IsWrite(k, t, id) ==
  calls[k].method = "Write" /\ calls[k].tier = t /\ calls[k].id = id
Writes(t, id) == {k \in 1..Len(calls) : IsWrite(k, t, id)}
WasRead(id) ==
  \E k \in 1..Len(calls) :
    /\ calls[k].method = "Read" /\ calls[k].tier = NumTiers /\ calls[k].id = id
    /\ Succeeded(calls[k])
\* The IDs the authority's Scan listed.
Scanned ==
  IF Len(calls) > 0 /\ Succeeded(calls[1])
  THEN {id \in Ids : before[NumTiers][id] # NilEntry} ELSE {}
FailureFree == \A k \in 1..Len(calls) : Succeeded(calls[k])
AllRestored ==
  \A t \in 1..(NumTiers - 1) : \A id \in Ids :
    before[NumTiers][id] # NilEntry => drivers[t][id] = before[NumTiers][id]

\* C24 as stated: for every ID the authority's Scan listed, the entry the authority
\* returned for it is written exactly once to every other driver and never to the
\* authority, the other drivers in order front to back; after a failure-free
\* Restore every other driver holds every entry of the authority.
C24_RestoreFrontToBack ==
  (ret.op = "Restore" /\ ~ret.panic) =>
    /\ \A id \in Scanned :
         /\ WasRead(id) => \A t \in 1..(NumTiers - 1) : Cardinality(Writes(t, id)) = 1
         /\ Writes(NumTiers, id) = {}
    /\ \A j, k \in 1..Len(calls) :
         (j < k /\ calls[j].method = "Write" /\ calls[k].method = "Write"
          /\ calls[j].id = calls[k].id) => calls[j].tier < calls[k].tier
    /\ FailureFree => AllRestored

\* C24, amended: for every ID the authority's Scan listed and the authority's Read
\* returned, the entry is written exactly once to every other driver and never to
\* the authority, the other drivers in order back to front; an ID whose Read failed
\* is written nowhere; after a failure-free Restore every other driver holds every
\* entry of the authority.
C24_RestoreBackToFront ==
  (ret.op = "Restore" /\ ~ret.panic) =>
    /\ \A id \in Ids :
         /\ \A t \in 1..(NumTiers - 1) :
              Cardinality(Writes(t, id)) = IF id \in Scanned /\ WasRead(id) THEN 1 ELSE 0
         /\ Writes(NumTiers, id) = {}
    /\ \A j, k \in 1..Len(calls) :
         (j < k /\ calls[j].method = "Write" /\ calls[k].method = "Write"
          /\ calls[j].id = calls[k].id) => calls[j].tier > calls[k].tier
    /\ \A k \in 1..Len(calls) :
         calls[k].method = "Write" =>
           \E j \in 1..(k - 1) :
             /\ calls[j].method = "Read" /\ calls[j].id = calls[k].id
             /\ \A i \in (j + 1)..(k - 1) : calls[i].method = "Write"
    /\ FailureFree => AllRestored

\* A failure-free Restore on three drivers has copied the authority's k1 over what
\* the others held: the middle driver was written first, the front driver second.
C24_Witness ==
  /\ ret.op = "Restore" /\ NumTiers = 3 /\ FailureFree /\ ret.ok
  /\ before[3]["k1"] # NilEntry /\ before[3]["k2"] = NilEntry
  /\ before[1]["k1"] # NilEntry /\ before[1]["k1"] # before[3]["k1"]
  /\ before[2]["k1"] = NilEntry
  /\ Len(calls) = 4 /\ IsWrite(3, 2, "k1") /\ IsWrite(4, 1, "k1")
  /\ AllRestored

\* C25: Restore returns ok=true only if the authority's Scan succeeded, every ID it
\* listed was read from the authority without error and without a miss, and every
\* Write to another driver returned ok=true without error; every read error and
\* write error makes ok false and is in the errors returned; and no failure stops
\* the IDs and drivers that remain.
C25_RestoreOkIsAll ==
  (ret.op = "Restore" /\ ~ret.panic) =>
    /\ ret.ok =>
         /\ Succeeded(calls[1])
         /\ \A id \in Scanned : WasRead(id)
         /\ \A k \in 1..Len(calls) : calls[k].method = "Write" => Succeeded(calls[k])
    /\ \A k \in 2..Len(calls) :
         calls[k].err # NoErr =>
           /\ ~ret.ok
           /\ \E i \in 1..Len(ret.errors) : ret.errors[i] = calls[k].err
    /\ \A id \in Scanned :
         /\ \E k \in 1..Len(calls) :
              calls[k].method = "Read" /\ calls[k].tier = NumTiers /\ calls[k].id = id
         /\ WasRead(id) => \A t \in 1..(NumTiers - 1) : Writes(t, id) # {}

\* ------------------------------------------- Delete on a frontend's SyncDriver
\* databank.Delete(id), databank.Has(id) and databank.Scan() on a frontend whose
\* driver is a SyncDriver: the driver's answer, its error reported.
syncedDelete(st, id, plan) == SyncDelete(st, id, plan)
syncedHas(st, id, plan) == SyncHas(st, id, plan)
syncedScan(st, plan) == SyncScan(st, plan)

\* NewSync(drivers...) behind a frontend, the drivers holding any of the IDs.
GoneInit ==
  /\ ChainQuiet /\ EntryQuiet /\ IdQuiet /\ FrontQuiet
  /\ drivers \in UNION {[1..n -> CleanStores] : n \in 0..MaxLifeTiers}
  /\ perIteration = TRUE
  /\ before = drivers
  /\ calls = <<>>
  /\ ret = Idle

\* databank.Delete(id) on a frontend whose driver is the SyncDriver.
SyncedDelete ==
  /\ ret = Idle
  /\ \E id \in Ids, plan \in DeletePlans[Len(drivers)] :
       LET r == syncedDelete(Start, id, plan) IN
       /\ drivers' = r.st.drv
       /\ calls' = r.st.log
       /\ ret' = [op |-> "Delete", id |-> id, ok |-> r.ok, err |-> r.err]
  /\ before' = drivers
  /\ UNCHANGED <<perIteration, chainVars, entryVars, idVars, frontVars>>

GoneNext == SyncedDelete \/ Return

GoneSpec == GoneInit /\ [][GoneNext]_vars

\* ------------------------------- claims on Delete on a frontend's SyncDriver
\* What the frontend answers about an ID when the drivers hold drv and none fails:
\* Has is false, Read is a miss whatever the configuration, and Scan does not
\* list it.
Absent(drv, id) ==
  /\ ~syncedHas([drv |-> drv, log |-> <<>>], id, {}).ok
  /\ \A hot \in BOOLEAN, shares \in Sharing(Len(drv)) :
       ~syncedRead([drv |-> drv, log |-> <<>>], id, {}, perIteration, shares, hot, now).ok
  /\ id \notin syncedScan([drv |-> drv, log |-> <<>>], {}).ids
Listing(drv) == syncedScan([drv |-> drv, log |-> <<>>], {}).ids
NeverPresent(id) == \A t \in 1..NumTiers : before[t][id] = NilEntry
AllSucceeded == \A k \in 1..Len(calls) : Succeeded(calls[k])

C29_WitnessNever ==
  /\ ret.op = "Delete" /\ ret.ok /\ ret.err = NoErr /\ NumTiers = 2
  /\ NeverPresent(ret.id) /\ AllSucceeded

\* ------------------------------------------- sequences of calls without failure
\* The entries written and held at time 1: k1 with either content, past its expiry
\* (expires 0) or not (expires 2), flagged expired or not; k2 past its expiry.
SeqEntries ==
  {WithMeta("k1", c, [created |-> 0, expires |-> x, expiresNever |-> FALSE, expired |-> f]) :
     c \in Contents, x \in {0, 2}, f \in BOOLEAN}
  \cup {WithMeta("k2", "v1", [created |-> 0, expires |-> 0, expiresNever |-> FALSE,
                             expired |-> FALSE])}
SeqStores == {s \in [Ids -> SeqEntries \cup {NilEntry}] : WellStored(s)}

\* Every entry a driver in front of the authority holds is held by the authority
\* with the same content and the same expired flag.
Coherent(drv) ==
  \A t \in 1..(Len(drv) - 1) : \A id \in Ids :
    drv[t][id] # NilEntry =>
      /\ drv[Len(drv)][id] # NilEntry
      /\ drv[Len(drv)][id].content = drv[t][id].content
      /\ drv[Len(drv)][id].expired = drv[t][id].expired

\* NewSync(drivers...) on drivers that agree with the authority.
SeqInit ==
  /\ ChainQuiet /\ IdQuiet /\ FrontQuiet
  /\ now = 1 /\ entry = NoCall /\ last = NoCall
  /\ drivers \in {d \in UNION {[1..n -> SeqStores] : n \in 0..MaxLifeTiers} : Coherent(d)}
  /\ perIteration \in BOOLEAN
  /\ before = drivers
  /\ calls = <<>>
  /\ ret = Idle

\* The call op has returned, every driver call of it having succeeded; the next call
\* may follow.
Done(op, st) ==
  /\ drivers' = st.drv
  /\ calls' = st.log
  /\ ret' = [op |-> op]
  /\ before' = drivers
  /\ UNCHANGED <<perIteration, chainVars, entryVars, idVars, frontVars>>

SeqRead == \E id \in Ids : Done("Read", SyncRead(Start, id, {}, perIteration).st)
SeqWrite == \E e \in SeqEntries : Done("Write", SyncWrite(Start, e, {}, perIteration).st)
SeqDelete == \E id \in Ids : Done("Delete", SyncDelete(Start, id, {}).st)
SeqExpire ==
  \E id \in Ids, shares \in Sharing(Len(drivers)) :
    Done("Expire", SyncExpire(Start, id, {}, perIteration, shares).st)
SeqFlush == Done("Flush", SyncFlush(Start, {}).st)
SeqCleanup == \E order \in Orders : Done("Cleanup", SyncCleanup(Start, order, {}).st)
SeqReview ==
  \E order \in Orders, shares \in BOOLEAN :
    Done("Review", SyncReview(Start, order, {}, perIteration, shares, now).st)
SeqRestore == \E order \in Orders : Done("Restore", SyncRestore(Start, order, {}).st)

SeqNext ==
  \/ SeqRead \/ SeqWrite \/ SeqDelete \/ SeqExpire
  \/ SeqFlush \/ SeqCleanup \/ SeqReview \/ SeqRestore

SeqSpec == SeqInit /\ [][SeqNext]_vars

\* ------------------------------- claims on sequences of calls without failure
\* C34: from drivers of which every entry held in front of the authority is held by
\* the authority with the same content and expired flag, every sequence of Read,
\* Write, Delete, Expire, Flush, Cleanup, Review and Restore calls in which no
\* driver call fails leaves the drivers so.
C34_FrontAgreesWithAuthority == Coherent(drivers)

\* A Review has expired k1 everywhere: the front driver held it past its expiry and
\* the authority held it with a later expiry, neither flagged expired.
C34_Witness ==
  /\ ret.op = "Review" /\ NumTiers = 2
  /\ before[1]["k1"] # NilEntry /\ before[2]["k1"] # NilEntry
  /\ before[1]["k1"].expires = 0 /\ before[2]["k1"].expires = 2
  /\ ~before[1]["k1"].expired /\ ~before[2]["k1"].expired
  /\ drivers[1]["k1"].expired /\ drivers[2]["k1"].expired

\* A Write has replaced, in both drivers, an entry both held with another content.
C34_WitnessWrite ==
  /\ ret.op = "Write" /\ NumTiers = 2
  /\ before[1]["k1"] # NilEntry /\ before[1]["k1"].content = "v1"
  /\ drivers[1]["k1"].content = "v2" /\ drivers[2]["k1"].content = "v2"

\* ----------------------------------------- two calls on one SyncDriver at once
\* SyncDriver holds no lock and no state besides its list of drivers: two calls
\* made at once interleave at their driver calls, each of which the driver makes
\* atomic. No driver call fails here, so that Write never rolls back.
Callers == 1..2

\* The call a caller makes, before its first driver call: Read(k1), Delete(k1) or
\* Write(e); e is nil for Read and Delete.
begun(op, e) ==
  [op |-> op, e |-> e, pc |-> IF op = "Delete" THEN "delete" ELSE "read",
   i |-> 0, driver |-> 0, failed |-> <<>>, result |-> NilEntry, oks |-> <<>>, ok |-> FALSE]
Begun ==
  {begun("Read", NilEntry), begun("Delete", NilEntry)}
  \cup {begun("Write", e) : e \in {x \in Entry : x.id \in SyncIds}}

\* Where a call goes on once its Read (for Write, the Read that captures the prior
\* value) is over: Read returns, Write enters its write loop.
afterRead(c, ok) ==
  IF c.op = "Write" THEN [c EXCEPT !.pc = "write", !.i = 0]
  ELSE [c EXCEPT !.pc = "done", !.ok = ok]

\* One iteration of the read loop of SyncDriver.Read, i iterations being over.
readStep(c, st) ==
  LET r == driverRead(st, c.i + 1, "k1", {}) IN
  [st |-> r.st,
   c |-> IF r.ok
         THEN LET hit == [c EXCEPT !.result = r.e, !.driver = c.i + 1, !.i = 0] IN
              IF c.failed = <<>> THEN afterRead(hit, TRUE) ELSE [hit EXCEPT !.pc = "fill"]
         ELSE LET missed == [c EXCEPT !.failed = Append(c.failed, c.i + 1), !.i = c.i + 1,
                                      !.driver = c.i + 1]
              IN IF c.i + 1 = Len(st.drv) THEN afterRead(missed, FALSE) ELSE missed]

\* One iteration of the write-back loop of SyncDriver.Read.
fillStep(c, st, perIter) ==
  LET w == driverWrite(st, Deref(c.failed[Len(c.failed) - c.i], c.driver, perIter),
                       c.result, {})
  IN [st |-> w.st,
      c |-> IF c.i + 1 = Len(c.failed) THEN afterRead(c, TRUE) ELSE [c EXCEPT !.i = c.i + 1]]

\* A write loop that writes the front driver and returns.
writeStepFrontOnly(c, st) ==
  [st |-> driverWrite(st, 1, c.e, {}).st, c |-> [c EXCEPT !.pc = "done", !.ok = TRUE]]

\* One iteration of the write loop of SyncDriver.Write.
writeStep(c, st) ==
  [st |-> driverWrite(st, c.i + 1, c.e, {}).st,
   c |-> IF c.i + 1 = Len(st.drv) THEN [c EXCEPT !.pc = "done", !.ok = TRUE]
         ELSE [c EXCEPT !.i = c.i + 1]]

\* One iteration of the loop of DeleteAggregate; after the last, Delete returns.
deleteStep(c, st) ==
  LET d == driverDelete(st, DeleteOrder(Len(st.drv), c.i), "k1", {})
      oks == Append(c.oks, d.ok)
  IN [st |-> d.st,
      c |-> IF c.i + 1 = Len(st.drv)
            THEN [c EXCEPT !.pc = "done", !.oks = oks, !.ok = DeleteOk(oks)]
            ELSE [c EXCEPT !.i = c.i + 1, !.oks = oks]]

\* NewSync(drivers...) on one driver or more, and two callers about to call.
RaceInit ==
  /\ ChainQuiet /\ EntryQuiet /\ IdQuiet /\ FrontQuiet
  /\ drivers \in UNION {[1..n -> StoresHolding(SyncIds)] : n \in 1..MaxLifeTiers}
  /\ perIteration \in BOOLEAN
  /\ before = drivers
  /\ calls = <<>>
  /\ ret \in [op : {"calls"}, of : [Callers -> Begun]]

\* Caller p has made the driver call that takes its call to r.c; the call is logged
\* with its caller.
Stepped(p, r) ==
  /\ drivers' = r.st.drv
  /\ calls' = Append(calls, [by |-> p, tier |-> r.st.log[1].tier,
                             method |-> r.st.log[1].method, ok |-> r.st.log[1].ok])
  /\ ret' = [ret EXCEPT !.of[p] = r.c]
  /\ UNCHANGED <<before, perIteration, chainVars, entryVars, idVars, frontVars>>

Current == [drv |-> drivers, log |-> <<>>]

ReadCall(p) == ret.of[p].pc = "read" /\ Stepped(p, readStep(ret.of[p], Current))
FillCall(p) == ret.of[p].pc = "fill" /\ Stepped(p, fillStep(ret.of[p], Current, perIteration))
WriteCall(p) == ret.of[p].pc = "write" /\ Stepped(p, writeStep(ret.of[p], Current))
DeleteCall(p) == ret.of[p].pc = "delete" /\ Stepped(p, deleteStep(ret.of[p], Current))

RaceNext == \E p \in Callers : ReadCall(p) \/ FillCall(p) \/ WriteCall(p) \/ DeleteCall(p)

RaceSpec == RaceInit /\ [][RaceNext]_vars

\* ----------------------------- claims on two calls on one SyncDriver at once
BothReturned == ret.op = "calls" /\ \A p \in Callers : ret.of[p].pc = "done"
Racing(a, b) ==
  /\ BothReturned
  /\ \E p, q \in Callers : p # q /\ ret.of[p].op = a /\ ret.of[q].op = b
\* Call k is the last Write driver t received.
LastWrite(k, t) ==
  /\ calls[k].tier = t /\ calls[k].method = "Write"
  /\ \A j \in (k + 1)..Len(calls) : ~(calls[j].tier = t /\ calls[j].method = "Write")

\* C31: two Writes for one ID made at once, no driver call failing, both return
\* ok=true however their driver calls interleave, and each driver is left holding
\* the entry of the Write that wrote it last, which need not be the same Write for
\* every driver.
C31_LastWriterPerTier ==
  Racing("Write", "Write") =>
    /\ \A p \in Callers : ret.of[p].ok
    /\ \A t \in 1..NumTiers :
         \E k \in 1..Len(calls) : LastWrite(k, t) /\ drivers[t]["k1"] = ret.of[calls[k].by].e

\* Two Writes of different entries have both returned ok=true, and the front driver
\* holds the entry of one and the authority the entry of the other.
C31_Witness ==
  /\ Racing("Write", "Write") /\ NumTiers >= 2
  /\ ret.of[1].e # ret.of[2].e
  /\ \A p \in Callers : ret.of[p].ok
  /\ drivers[1]["k1"] = ret.of[1].e /\ drivers[NumTiers]["k1"] = ret.of[2].e

\* C32: when a Read(id) and a Delete(id) made at once have both returned, no driver
\* call having failed, no driver holds the ID.
C32_NoResurrection ==
  Racing("Read", "Delete") => \A t \in 1..NumTiers : drivers[t]["k1"] = NilEntry

\* ------------------------------------------- the frontend and the middleware
\* The methods of the Databank interface that reach the driver.
FrontMethods ==
  {"Cleanup", "Delete", "Expire", "Flush", "Has", "Read", "Restore", "Review", "Scan",
   "Search", "Write"}

\* What a frontend method enters: d.driver's method of the same name, and for a
\* Read that expires the entry, d.Write and so d.driver.Write.
frontend(h, lazily) ==
  IF h = "Read" /\ lazily
  THEN <<Entered(driverMethod("Read")), Entered(driverMethod("Write"))>>
  ELSE <<Entered(driverMethod(h))>>

\* A method of the frontend is called: the databank holds a config and a driver,
\* and the method calls the driver.
FrontCall ==
  /\ \E h \in FrontMethods, lazily \in BOOLEAN :
       handled' = [op |-> h, via |-> "databank", entered |-> frontend(h, lazily),
                   result |-> Entered(driverMethod(h))]
  /\ UNCHANGED <<middlewares, middleware, invoked, syncVars, entryVars, idVars, frontVars>>

WiredNext == Install \/ Invoke \/ FrontCall

WiredSpec == ChainInit /\ [][WiredNext]_vars

\* ---------------------------------- claims on the frontend and the middleware
\* A method of the frontend has returned.
FrontCalled == handled # NoCall /\ "via" \in DOMAIN handled

\* C30: when middlewares are installed, a frontend operation enters the composed
\* chain first, at the last middleware, and the driver's method is entered only
\* behind a middleware.
C30_FrontendThroughChain ==
  (FrontCalled /\ middleware # <<>> /\ Len(middlewares) >= 1) =>
    /\ handled.entered[1].kind = "middleware"
    /\ handled.entered[1].who = Len(middlewares)
    /\ \A k \in 1..Len(handled.entered) :
         handled.entered[k].kind = "driver" =>
           (k > 1 /\ handled.entered[k - 1].kind = "middleware")

====
